---- MODULE Spec2Model ----
(***************************************************************************)
(* LLMLab backend: metering reverse proxy, response cache, credential      *)
(* store, budget watcher and anomaly detector, modelled as state machines. *)
(*                                                                         *)
(* Concurrency model: the backend runs in one asyncio event loop           *)
(* (main.py: uvicorn.run(app)).  The SQLAlchemy calls are synchronous, so  *)
(* a coroutine is only suspended at an `await` of network I/O: reading the *)
(* request body, the upstream HTTP call, every chunk of an upstream        *)
(* stream, and every webhook POST.  One action of the model is the code    *)
(* that runs between two such suspension points.                           *)
(*                                                                         *)
(* Money is counted in micro-dollars (cost_usd is rounded to 6 decimals),  *)
(* prices in cents per million tokens.                                     *)
(***************************************************************************)
EXTENDS Integers, Sequences, FiniteSets, TLC

(***************************************************************************)
(* Bounds of the model.                                                    *)
(***************************************************************************)
MaxReqs == 2

Users == {"u1", "u2"}
Providers == {"openai", "anthropic", "google"}
None == "none"

VARIABLES
  usage_logs,      \* usage_logs table: sequence of rows, in insertion order
  budgets,         \* budgets table: sequence of rows
  webhooks,        \* webhooks table: sequence of rows
  today,           \* the current UTC day (a day number)
  fired_alerts,    \* alerts._fired_alerts
  alert_tasks,     \* check_and_fire_alerts coroutines, by task id
  fired_anomaly_alerts,  \* anomaly._fired_anomaly_alerts
  anomaly_tasks,   \* check_and_fire_anomaly_alerts coroutines, by task id
  posts,           \* webhook POSTs that were sent: the observable output
  api_keys,        \* api_keys table: sequence of rows, the row id is its index
  tags,            \* tags table: sequence of rows, the row id is its index
  log_tags,        \* usage_log_tags junction rows <<log index, tag id>>
  response_cache,  \* cache.response_cache (MemoryCache)
  now,             \* the clock, in units of the cache TTL
  reqs,            \* the proxy requests, by request id
  last_op          \* history: the last operation that completed and its outcome;
                   \* the arrival of a proxy request leaves it as it is

hookVars == <<fired_alerts, alert_tasks, fired_anomaly_alerts, anomaly_tasks, posts>>
tableVars == <<usage_logs, budgets, webhooks, today>>
proxyVars == <<api_keys, tags, log_tags, response_cache, now, reqs, last_op>>
vars == <<tableVars, hookVars, proxyVars>>

(***************************************************************************)
(* Helpers on sequences.                                                   *)
(***************************************************************************)
RECURSIVE SumCost(_, _)
SumCost(rows, i) ==
  IF i > Len(rows) THEN 0 ELSE rows[i].cost_usd + SumCost(rows, i + 1)

(***************************************************************************)
(* Price tables and calculate_cost (providers/*_provider.py).  Rates are   *)
(* in 1/10000 dollar per million tokens, the result in micro-dollars.      *)
(***************************************************************************)
OPENAI_PRICING ==
  [m \in {"gpt-4o", "gpt-4o-mini"} |->
     IF m = "gpt-4o" THEN [input |-> 25000, output |-> 100000]
                     ELSE [input |-> 1500, output |-> 6000]]
DEFAULT_OPENAI_PRICING == [input |-> 100000, output |-> 300000]

ANTHROPIC_PRICING ==
  [m \in {"claude-3-5-sonnet-20241022", "claude-3-5-haiku-20241022"} |->
     IF m = "claude-3-5-sonnet-20241022" THEN [input |-> 30000, output |-> 150000]
                                         ELSE [input |-> 8000, output |-> 40000]]
DEFAULT_ANTHROPIC_PRICING == [input |-> 30000, output |-> 150000]

GOOGLE_PRICING ==
  [m \in {"gemini-1.5-flash", "gemini-1.5-pro"} |->
     IF m = "gemini-1.5-flash" THEN [input |-> 750, output |-> 3000]
                               ELSE [input |-> 12500, output |-> 50000]]
DEFAULT_GOOGLE_PRICING == [input |-> 12500, output |-> 50000]

PricingOf(provider, model) ==
  CASE provider = "openai" ->
         IF model \in DOMAIN OPENAI_PRICING THEN OPENAI_PRICING[model]
         ELSE DEFAULT_OPENAI_PRICING
    [] provider = "anthropic" ->
         IF model \in DOMAIN ANTHROPIC_PRICING THEN ANTHROPIC_PRICING[model]
         ELSE DEFAULT_ANTHROPIC_PRICING
    [] OTHER ->
         IF model \in DOMAIN GOOGLE_PRICING THEN GOOGLE_PRICING[model]
         ELSE DEFAULT_GOOGLE_PRICING

\* round(x, 6) of a dollar amount n / 10^10: round n / 10^4 to the nearest
\* micro-dollar, ties to even (n >= 0)
Round6(n) ==
  LET q == n \div 10000
      r == n % 10000
  IN IF r > 5000 \/ (r = 5000 /\ q % 2 = 1) THEN q + 1 ELSE q

calculate_cost(provider, model, input_tokens, output_tokens) ==
  LET pricing == PricingOf(provider, model)
  IN Round6(input_tokens * pricing.input + output_tokens * pricing.output)

(***************************************************************************)
(* alerts.py: check_and_fire_alerts                                        *)
(***************************************************************************)
BudgetPeriodDays == 30

\* rows of the tenant's budgets, lines 37
BudgetsOf(u) == SelectSeq(budgets, LAMBDA b : b.user_id = u)

\* spend of the trailing 30 days, lines 42-50
CurrentSpend(u) ==
  SumCost(SelectSeq(usage_logs,
            LAMBDA l : l.user_id = u /\ l.created_day >= today - BudgetPeriodDays), 1)

\* ActiveWebhooksOf without the filter on is_active
ActiveWebhooksOf_All(u) == SelectSeq(webhooks, LAMBDA w : w.user_id = u)

\* the tenant's active webhooks, lines 53-56
ActiveWebhooksOf(u) == SelectSeq(webhooks, LAMBDA w : w.user_id = u /\ w.is_active)

\* lines 62-70: pct = spend / amount * 100 compared with 100 and the threshold;
\* the comparison is done on integers: pct >= x  <=>  spend * 100 >= x * amount
AlertStatus(spend, budget) ==
  IF budget.amount_usd > 0
  THEN IF spend * 100 >= 100 * budget.amount_usd THEN "budget_exceeded"
       ELSE IF spend * 100 >= budget.alert_threshold * budget.amount_usd
            THEN "budget_warning"
            ELSE None
  ELSE IF 0 >= budget.alert_threshold THEN "budget_warning" ELSE None

\* line 73
AlertKey(u, budget, status) == <<u, budget.id, status>>

\* lines 74-75: the dedup check
AlreadyFired(key, fired) == key \in fired

\* first index >= wi of a webhook whose event_type equals the status, 0 if none
RECURSIVE NextMatching(_, _, _)
NextMatching(whs, wi, status) ==
  IF wi > Len(whs) THEN 0
  ELSE IF whs[wi].event_type = status THEN wi
  ELSE NextMatching(whs, wi + 1, status)

\* The loops of lines 61-106, run from budget bi / webhook wi up to the next
\* await of client.post (pc "posting") or to the end of the coroutine.
\* wi = 0 means the budget bi has not been examined yet.
RECURSIVE AlertAdvance(_, _, _, _)
AlertAdvance(t, bi, wi, fired) ==
  IF bi > Len(t.budgets)
  THEN [fired |-> fired, task |-> [t EXCEPT !.pc = "done", !.bi = bi, !.wi = 0]]
  ELSE LET b == t.budgets[bi]
           st == AlertStatus(t.spend, b)
           key == AlertKey(t.user_id, b, st)
       IN IF wi = 0 /\ (st = None \/ AlreadyFired(key, fired))
          THEN AlertAdvance(t, bi + 1, 0, fired)
          ELSE LET j == NextMatching(t.webhooks, IF wi = 0 THEN 1 ELSE wi, st)
               IN IF j # 0
                  THEN [fired |-> fired,
                        task |-> [t EXCEPT !.pc = "posting", !.bi = bi, !.wi = j,
                                           !.status = st]]
                  ELSE AlertAdvance(t, bi + 1, 0, fired \cup {key})

IdleTask == [budgets |-> <<>>, webhooks |-> <<>>, user_id |-> None, spend |-> 0,
             status |-> None, wi |-> 0, bi |-> 0, pc |-> "idle"]

TaskIds == 1..MaxReqs

\* a webhook POST as the receiver sees it
Post(kind, wh, u, budget, day, event, severity, ok, k) ==
  [user_id |-> u, budget |-> budget, task |-> k, kind |-> kind, day |-> day,
   event |-> event, severity |-> severity, webhook |-> wh, delivered |-> ok]

\* check_and_fire_alerts from its first line to the first await (or its end)
AlertStart(k) ==
  /\ alert_tasks[k].pc = "ready"
  /\ LET u == alert_tasks[k].user_id
         bs == BudgetsOf(u)
         whs == ActiveWebhooksOf(u)
     IN IF Len(bs) = 0 \/ Len(whs) = 0
        THEN /\ alert_tasks' = [alert_tasks EXCEPT ![k].pc = "done"]
             /\ UNCHANGED fired_alerts
        ELSE LET t0 == [alert_tasks[k] EXCEPT !.budgets = bs, !.webhooks = whs,
                                              !.spend = CurrentSpend(u)]
                 r == AlertAdvance(t0, 1, 0, fired_alerts)
             IN /\ alert_tasks' = [alert_tasks EXCEPT ![k] = r.task]
                /\ fired_alerts' = r.fired
  /\ UNCHANGED <<tableVars, proxyVars, fired_anomaly_alerts, anomaly_tasks, posts>>

\* the awaited client.post returns (ok) or raises (not ok, lines 102-103);
\* the coroutine then runs on to its next await or to its end
AlertPostDone(k, ok) ==
  /\ alert_tasks[k].pc = "posting"
  /\ LET t == alert_tasks[k]
         b == t.budgets[t.bi]
         r == AlertAdvance(t, t.bi, t.wi + 1, fired_alerts)
     IN /\ posts' = Append(posts, Post("budget", t.webhooks[t.wi].id, t.user_id, b.id,
                                       today, t.status, None, ok, k))
        /\ alert_tasks' = [alert_tasks EXCEPT ![k] = r.task]
        /\ fired_alerts' = r.fired
  /\ UNCHANGED <<tableVars, proxyVars, fired_anomaly_alerts, anomaly_tasks>>

(***************************************************************************)
(* anomaly.py: detect_anomalies.  Days are day numbers; the statistics are *)
(* computed on integers: with n historical values of sum S and sum of      *)
(* squares Q, n^2 * variance = n*Q - S^2, and                              *)
(*   z >= k  <=>  n*today - S >= 0  /\  (n*today - S)^2 >= k^2 (n*Q - S^2) *)
(***************************************************************************)
WindowDays == 14

\* lines 43-46: the rows loaded
AnomalyLogs(u) ==
  SelectSeq(usage_logs, LAMBDA l : l.user_id = u /\ l.created_day >= today - WindowDays)

RECURSIVE DayCost(_, _, _)
DayCost(rows, day, i) ==
  IF i > Len(rows) THEN 0
  ELSE (IF rows[i].created_day = day THEN rows[i].cost_usd ELSE 0) + DayCost(rows, day, i + 1)

RECURSIVE DayTokens(_, _, _)
DayTokens(rows, day, i) ==
  IF i > Len(rows) THEN 0
  ELSE (IF rows[i].created_day = day THEN rows[i].input_tokens + rows[i].output_tokens ELSE 0)
       + DayTokens(rows, day, i + 1)

\* lines 60-63 and 109-112: entry i (0-based) is the day fourteen_days_ago + i
DailyValues(rows) == [i \in 1..WindowDays |-> DayCost(rows, today - WindowDays + (i - 1), 1)]
TokenValues(rows) == [i \in 1..WindowDays |-> DayTokens(rows, today - WindowDays + (i - 1), 1)]

\* lines 70 and 114: daily_values[:-1]
Historical(values) == SubSeq(values, 1, Len(values) - 1)

RECURSIVE SeqSum(_, _)
SeqSum(s, i) == IF i > Len(s) THEN 0 ELSE s[i] + SeqSum(s, i + 1)

RECURSIVE SeqSumSq(_, _)
SeqSumSq(s, i) == IF i > Len(s) THEN 0 ELSE s[i] * s[i] + SeqSumSq(s, i + 1)

Anomaly(type, severity) == [severity |-> severity, type |-> type]

\* lines 76-106
SpendSpike(hist, today_cost) ==
  LET n == Len(hist)
      S == SeqSum(hist, 1)
      V == n * SeqSumSq(hist, 1) - S * S
      d == n * today_cost - S
  IN IF V > 0 /\ today_cost > 0
     THEN IF d >= 0 /\ d * d >= 4 * V
          THEN <<Anomaly("spend_spike", IF d * d >= 9 * V THEN "critical" ELSE "warning")>>
          ELSE <<>>
     ELSE IF V = 0 /\ S > 0 /\ n * today_cost > 2 * S
          THEN <<Anomaly("spend_spike", "warning")>>
          ELSE <<>>

\* lines 108-126
TokenSurge(hist_tokens, today_tokens) ==
  LET n == Len(hist_tokens)
      S == SeqSum(hist_tokens, 1)
  IN IF n > 0 /\ S > 0 /\ n * today_tokens > 3 * S
     THEN <<Anomaly("token_surge", "info")>>
     ELSE <<>>

detect_anomalies(u) ==
  LET logs == AnomalyLogs(u)
      today_cost == DayCost(logs, today, 1)
      today_tokens == DayTokens(logs, today, 1)
      historical == Historical(DailyValues(logs))
  IN IF Len(logs) = 0 \/ Len(historical) < 3
     THEN <<>>
     ELSE SpendSpike(historical, today_cost)
          \o TokenSurge(Historical(TokenValues(logs)), today_tokens)

(***************************************************************************)
(* anomaly.py: check_and_fire_anomaly_alerts                               *)
(***************************************************************************)
\* line 146
ActiveAnomalies(anoms) == SelectSeq(anoms, LAMBDA a : a.severity \in {"warning", "critical"})

\* lines 156-160
AnomalyWebhooksOf(u) ==
  SelectSeq(webhooks, LAMBDA w : w.user_id = u /\ w.event_type = "anomaly" /\ w.is_active)

\* lines 152-153: the dedup check
AnomalyAlreadyFired(key, fired) == key \in fired

IdleAnomalyTask == [webhooks |-> <<>>, user_id |-> None, key |-> <<>>, wi |-> 0,
                    pc |-> "idle", anomalies |-> <<>>, ai |-> 0]

\* from the first line to the first await of client.post (or to the end)
AnomalyStart(k) ==
  /\ anomaly_tasks[k].pc = "ready"
  /\ LET u == anomaly_tasks[k].user_id
         active == ActiveAnomalies(detect_anomalies(u))
         key == <<u, today>>
         whs == AnomalyWebhooksOf(u)
     IN IF Len(active) = 0 \/ AnomalyAlreadyFired(key, fired_anomaly_alerts)
        THEN /\ anomaly_tasks' = [anomaly_tasks EXCEPT ![k].pc = "done"]
             /\ UNCHANGED fired_anomaly_alerts
        ELSE IF Len(whs) = 0
        THEN /\ anomaly_tasks' = [anomaly_tasks EXCEPT ![k].pc = "done"]
             /\ fired_anomaly_alerts' = fired_anomaly_alerts \cup {key}
        ELSE /\ anomaly_tasks' = [anomaly_tasks EXCEPT ![k] =
                   [webhooks |-> whs, user_id |-> u, key |-> key,
                    wi |-> 1, pc |-> "posting", anomalies |-> active, ai |-> 1]]
             /\ UNCHANGED fired_anomaly_alerts
  /\ UNCHANGED <<tableVars, proxyVars, fired_alerts, alert_tasks, posts>>

\* lines 166-189: the awaited POST returns or raises; next webhook, next
\* anomaly, or the key is recorded
AnomalyPostDone(k, ok) ==
  /\ anomaly_tasks[k].pc = "posting"
  /\ LET t == anomaly_tasks[k]
         a == t.anomalies[t.ai]
     IN /\ posts' = Append(posts, Post("anomaly", t.webhooks[t.wi].id, t.user_id, None,
                                       t.key[2], "anomaly", a.severity, ok, k))
        /\ IF t.wi < Len(t.webhooks)
           THEN /\ anomaly_tasks' = [anomaly_tasks EXCEPT ![k].wi = t.wi + 1]
                /\ UNCHANGED fired_anomaly_alerts
           ELSE IF t.ai < Len(t.anomalies)
           THEN /\ anomaly_tasks' = [anomaly_tasks EXCEPT ![k].ai = t.ai + 1, ![k].wi = 1]
                /\ UNCHANGED fired_anomaly_alerts
           ELSE /\ anomaly_tasks' = [anomaly_tasks EXCEPT ![k].pc = "done"]
                /\ fired_anomaly_alerts' = fired_anomaly_alerts \cup {t.key}
  /\ UNCHANGED <<tableVars, proxyVars, fired_alerts, alert_tasks>>

(***************************************************************************)
(* The post-hooks of a metered request (main.py 683-702): the usage log is *)
(* committed and both checks are scheduled with asyncio.create_task.       *)
(***************************************************************************)
UsageLog(u, provider, model, input_tokens, output_tokens, cost, latency, hit, day, r) ==
  [cost_usd |-> cost, provider |-> provider, model |-> model, input_tokens |-> input_tokens,
   output_tokens |-> output_tokens, user_id |-> u, created_day |-> day,
   latency_ms |-> latency, cache_hit |-> hit, req |-> r]

\* asyncio.create_task: the new coroutines take the first free task slot
FreeTask(k) ==
  /\ alert_tasks[k].pc = "idle"
  /\ \A j \in 1..(k - 1) : alert_tasks[j].pc # "idle"

create_tasks(k, u) ==
  /\ alert_tasks' = [alert_tasks EXCEPT ![k] = [IdleTask EXCEPT !.pc = "ready", !.user_id = u]]
  /\ anomaly_tasks' = [anomaly_tasks EXCEPT ![k] =
                         [IdleAnomalyTask EXCEPT !.pc = "ready", !.user_id = u]]

\* the metered calls the tenants make: (model, input_tokens, output_tokens)
Calls == {<<"gpt-4o", 16, 8>>, <<"gpt-4o", 40, 20>>}

LogAndSchedule(u, call, k) ==
  /\ FreeTask(k)
  /\ usage_logs' = Append(usage_logs,
       UsageLog(u, "openai", call[1], call[2], call[3],
                calculate_cost("openai", call[1], call[2], call[3]), 1, FALSE, today, 0))
  /\ create_tasks(k, u)
  /\ UNCHANGED <<budgets, webhooks, today, fired_alerts, fired_anomaly_alerts, posts, proxyVars>>

(***************************************************************************)
(* JSON documents are records; d.get(k, default) is Get.                   *)
(***************************************************************************)
Get(d, k, default) == IF k \in DOMAIN d THEN d[k] ELSE default

EmptyJson == [k \in {} |-> 0]

(***************************************************************************)
(* Credential store: create_api_key, delete_api_key (main.py 248-360).     *)
(***************************************************************************)
MaxKeys == 2

\* models.py 92-99: a new row; generate_proxy_key draws 128 random bits and
\* the column is unique, so the proxy key of row i is a fresh value: i.
ApiKey(id, u, provider) ==
  [provider |-> provider, user_id |-> u, is_active |-> TRUE, id |-> id,
   proxy_key |-> id, last_used_at |-> 0]

\* create_api_key without the check for an existing credential
ExistingActiveKey_Unchecked(u, provider) == FALSE

\* main.py 269-273
ExistingActiveKey(u, provider) ==
  \E i \in DOMAIN api_keys :
    /\ api_keys[i].user_id = u
    /\ api_keys[i].provider = provider
    /\ api_keys[i].is_active

\* the operations the history records
NoOp == [op |-> "none"]
KeyResult(op, u, provider, status) ==
  [provider |-> provider, user_id |-> u, status |-> status, op |-> op]
Answered(r) == [req |-> r, op |-> "upstream"]

\* the request that was answered from upstream by the last operation, if any
LastAnswered == IF last_op.op = "upstream" THEN last_op.req ELSE 0

create_api_key(u, provider) ==
  /\ IF ExistingActiveKey(u, provider)
     THEN /\ UNCHANGED api_keys
          /\ last_op' = KeyResult("create", u, provider, 400)
     ELSE /\ Len(api_keys) < MaxKeys
          /\ api_keys' = Append(api_keys, ApiKey(Len(api_keys) + 1, u, provider))
          /\ last_op' = KeyResult("create", u, provider, 200)
  /\ UNCHANGED <<tableVars, hookVars, tags, log_tags, response_cache, now, reqs>>

delete_api_key(u, key_id) ==
  /\ key_id \in DOMAIN api_keys
  /\ IF api_keys[key_id].user_id = u
     THEN /\ api_keys' = [api_keys EXCEPT ![key_id].is_active = FALSE]
          /\ last_op' = KeyResult("delete", u, api_keys[key_id].provider, 200)
     ELSE /\ UNCHANGED api_keys
          /\ last_op' = KeyResult("delete", u, None, 404)
  /\ UNCHANGED <<tableVars, hookVars, tags, log_tags, response_cache, now, reqs>>

(***************************************************************************)
(* cache.py: MemoryCache.  The entries are kept in the order of the        *)
(* OrderedDict, least recently used first.                                 *)
(***************************************************************************)
max_size == 2
default_ttl == 1

\* _make_key: SHA-256 of provider and body, taken to be free of collisions
_make_key(provider, body) == <<provider, body>>

KeyIndex(entries, key) ==
  IF \E i \in DOMAIN entries : entries[i].key = key
  THEN CHOOSE i \in DOMAIN entries : entries[i].key = key
  ELSE 0

RemoveAt(s, i) == SubSeq(s, 1, i - 1) \o SubSeq(s, i + 1, Len(s))

\* _is_expired that expires an entry one second early
_is_expired_Early(entry, t) == t >= entry.expires_at

_is_expired(entry, t) == t > entry.expires_at

\* MemoryCache_get that leaves an expired entry in place
MemoryCache_get_KeepExpired(c, provider, body, t) ==
  LET i == KeyIndex(c.entries, _make_key(provider, body))
  IN IF i = 0 \/ _is_expired(c.entries[i], t)
     THEN [hit |-> FALSE, cache |-> [c EXCEPT !.misses = c.misses + 1]]
     ELSE [hit |-> TRUE,
           cache |-> [c EXCEPT !.entries = Append(RemoveAt(c.entries, i), c.entries[i]),
                               !.hits = c.hits + 1],
           response_body |-> c.entries[i].response_body,
           metadata |-> c.entries[i].metadata]

\* get: the cache afterwards and the value returned (hit FALSE for None)
MemoryCache_get(c, provider, body, t) ==
  LET key == _make_key(provider, body)
      i == KeyIndex(c.entries, key)
  IN IF i = 0
     THEN [hit |-> FALSE, cache |-> [c EXCEPT !.misses = c.misses + 1]]
     ELSE IF _is_expired(c.entries[i], t)
     THEN [hit |-> FALSE,
           cache |-> [c EXCEPT !.entries = RemoveAt(c.entries, i), !.misses = c.misses + 1]]
     ELSE [hit |-> TRUE,
           cache |-> [c EXCEPT !.entries = Append(RemoveAt(c.entries, i), c.entries[i]),
                               !.hits = c.hits + 1],
           response_body |-> c.entries[i].response_body,
           metadata |-> c.entries[i].metadata]

\* EvictTo that evicts nothing
EvictTo_None(entries, n) == entries

\* lines 107-108: popitem(last=False) while the cache is full
RECURSIVE EvictTo(_, _)
EvictTo(entries, n) == IF Len(entries) >= n /\ Len(entries) > 0
                       THEN EvictTo(Tail(entries), n) ELSE entries

MemoryCache_set(c, provider, body, response_body, metadata, t) ==
  LET key == _make_key(provider, body)
      i == KeyIndex(c.entries, key)
      e1 == IF i # 0 THEN RemoveAt(c.entries, i) ELSE c.entries
      e2 == EvictTo(e1, max_size)
  IN [c EXCEPT !.entries = Append(e2, [key |-> key, expires_at |-> t + default_ttl,
                                       response_body |-> response_body,
                                       metadata |-> metadata])]

EmptyCache == [entries |-> <<>>, misses |-> 0, hits |-> 0]

\* a caller's response_cache.get(provider, body); the history keeps whether
\* the key had an entry and what the call returned.  The lookups are those of
\* the requests, at most MaxReqs.
CacheGet(provider, body) ==
  /\ response_cache.hits + response_cache.misses < MaxReqs
  /\ LET g == MemoryCache_get(response_cache, provider, body, now)
     IN /\ response_cache' = g.cache
        /\ last_op' = [key |-> _make_key(provider, body), hit |-> g.hit,
                       op |-> "get",
                       found |-> KeyIndex(response_cache.entries,
                                          _make_key(provider, body)) # 0,
                       returned |-> IF g.hit THEN <<g.response_body, g.metadata>> ELSE <<>>]
  /\ UNCHANGED <<tableVars, hookVars, api_keys, tags, log_tags, now, reqs>>

\* a caller's response_cache.set(provider, body, response_body, metadata);
\* the history keeps the keys the call dropped
CacheSet(provider, body, response_body, metadata) ==
  /\ response_cache' = MemoryCache_set(response_cache, provider, body, response_body,
                                       metadata, now)
  /\ last_op' = [key |-> _make_key(provider, body), op |-> "set",
                 evicted |-> {response_cache.entries[i].key :
                                i \in DOMAIN response_cache.entries}
                             \ {response_cache'.entries[i].key :
                                  i \in DOMAIN response_cache'.entries}]
  /\ UNCHANGED <<tableVars, hookVars, api_keys, tags, log_tags, now, reqs>>

(***************************************************************************)
(* Provider adapters: extract_usage, extract_model, the default model of a *)
(* route.                                                                  *)
(***************************************************************************)
extract_usage(provider, response_data) ==
  CASE provider = "openai" ->
         LET usage == Get(response_data, "usage", EmptyJson)
         IN <<Get(usage, "prompt_tokens", 0), Get(usage, "completion_tokens", 0)>>
    [] provider = "anthropic" ->
         LET usage == Get(response_data, "usage", EmptyJson)
         IN <<Get(usage, "input_tokens", 0), Get(usage, "output_tokens", 0)>>
    [] OTHER ->
         LET usage == Get(response_data, "usageMetadata", EmptyJson)
         IN <<Get(usage, "promptTokenCount", 0), Get(usage, "candidatesTokenCount", 0)>>

extract_model(provider, response_data, request_model) ==
  IF provider = "google" THEN Get(response_data, "modelVersion", request_model)
  ELSE Get(response_data, "model", request_model)

\* main.py 583, 761, 918
DefaultModel(provider) ==
  CASE provider = "openai" -> "gpt-4o"
    [] provider = "anthropic" -> "claude-3-5-sonnet-20241022"
    [] OTHER -> "gemini-1.5-flash"

(***************************************************************************)
(* Tag registry: _auto_tag_log (main.py 420-441).  A header is the list of *)
(* its comma-separated items.                                              *)
(***************************************************************************)
\* str.strip on the items that occur
Strip(item) == CASE item = " a" -> "a" [] item = " " -> "" [] OTHER -> item

\* TagNames without the strip and the filter on empty names
TagNames_Unstripped(header) == header

\* line 429
TagNames(header) ==
  LET stripped == [i \in DOMAIN header |-> Strip(header[i])]
  IN SelectSeq(stripped, LAMBDA n : n # "")

\* FindTag that never finds the tag
FindTag_None(tgs, u, name) == 0

\* line 433: the first tag of the tenant with that name, 0 if none
FindTag(tgs, u, name) ==
  IF \E i \in DOMAIN tgs : tgs[i].user_id = u /\ tgs[i].name = name
  THEN CHOOSE i \in DOMAIN tgs :
         /\ tgs[i].user_id = u /\ tgs[i].name = name
         /\ \A j \in DOMAIN tgs : (tgs[j].user_id = u /\ tgs[j].name = name) => i <= j
  ELSE 0

RECURSIVE AutoTag(_, _, _, _, _, _)
AutoTag(names, i, u, log, tgs, links) ==
  IF i > Len(names) THEN [tags |-> tgs, log_tags |-> links]
  ELSE LET found == FindTag(tgs, u, names[i])
           tgs1 == IF found = 0 THEN Append(tgs, [user_id |-> u, name |-> names[i]]) ELSE tgs
           tag == IF found = 0 THEN Len(tgs1) ELSE found
           links1 == IF \E k \in DOMAIN links : links[k] = <<log, tag>>
                     THEN links ELSE Append(links, <<log, tag>>)
       IN AutoTag(names, i + 1, u, log, tgs1, links1)

_auto_tag_log(header, log, u, tgs, links) ==
  IF Len(header) = 0 THEN [tags |-> tgs, log_tags |-> links]
  ELSE AutoTag(TagNames(header), 1, u, log, tgs, links)

\* create_tag (main.py 1749-1786)
create_tag(u, name) ==
  /\ IF \E i \in DOMAIN tags : tags[i].user_id = u /\ tags[i].name = name
     THEN UNCHANGED tags                                         \* 400
     ELSE tags' = Append(tags, [user_id |-> u, name |-> name])
  /\ last_op' = NoOp
  /\ UNCHANGED <<tableVars, hookVars, api_keys, log_tags, response_cache, now, reqs>>

\* lines 1855-1862: the loop over tag_ids; a tag is a row of the caller's
\* with that id that the log does not have yet
RECURSIVE AttachEach(_, _, _, _, _)
AttachEach(tag_ids, i, u, log, links) ==
  IF i > Len(tag_ids) THEN links
  ELSE LET tag_id == tag_ids[i]
           tag == IF tag_id \in DOMAIN tags /\ tags[tag_id].user_id = u THEN tag_id ELSE 0
       IN AttachEach(tag_ids, i + 1, u, log,
                     IF tag # 0 /\ ~(\E k \in DOMAIN links : links[k] = <<log, tag>>)
                     THEN Append(links, <<log, tag>>) ELSE links)

\* attach_tags that does not look at the owner of the log
attach_tags_AnyLog(u, log_id, tag_ids) ==
  /\ IF log_id \in DOMAIN usage_logs
     THEN log_tags' = AttachEach(tag_ids, 1, u, log_id, log_tags)
     ELSE UNCHANGED log_tags
  /\ last_op' = [user_id |-> u, op |-> "attach_tags", log_id |-> log_id]
  /\ UNCHANGED <<tableVars, hookVars, api_keys, tags, response_cache, now, reqs>>

\* attach_tags (main.py 1838-1866) of tenant u
attach_tags(u, log_id, tag_ids) ==
  /\ IF log_id \in DOMAIN usage_logs /\ usage_logs[log_id].user_id = u
     THEN log_tags' = AttachEach(tag_ids, 1, u, log_id, log_tags)
     ELSE UNCHANGED log_tags                                     \* 404
  /\ last_op' = [user_id |-> u, op |-> "attach_tags", log_id |-> log_id]
  /\ UNCHANGED <<tableVars, hookVars, api_keys, tags, response_cache, now, reqs>>

\* detach_tag (main.py 1869-1893) of tenant u: the tag is looked up by its
\* id alone (line 1887)
detach_tag(u, log_id, tag_id) ==
  /\ IF log_id \in DOMAIN usage_logs /\ usage_logs[log_id].user_id = u
     THEN IF tag_id \in DOMAIN tags
             /\ \E k \in DOMAIN log_tags : log_tags[k] = <<log_id, tag_id>>
          THEN log_tags' = SelectSeq(log_tags, LAMBDA l : l # <<log_id, tag_id>>)
          ELSE UNCHANGED log_tags
     ELSE UNCHANGED log_tags                                     \* 404
  /\ last_op' = [user_id |-> u, op |-> "detach_tag", log_id |-> log_id]
  /\ UNCHANGED <<tableVars, hookVars, api_keys, tags, response_cache, now, reqs>>

(***************************************************************************)
(* Proxy pipeline: proxy_openai / proxy_anthropic / proxy_google           *)
(* (main.py 547-714, 723-892, 901-1043), unary branch.                     *)
(***************************************************************************)
ReqIds == 1..MaxReqs

NoResponse == [status |-> 0]

\* what an adapter hands to httpx: the headers and the key= parameter of the
\* URL (0 when the URL carries none); nothing before the upstream call
NoSent == [headers |-> EmptyJson, url_key |-> 0]

\* db: the session of Depends(get_db), "none" before the request, then "open",
\* then "closed";
\* after: the request that had just completed when this one arrived;
\* served_after: the one that had just completed when its body was read
IdleReq ==
  [user_id |-> None, key |-> 0, pc |-> "idle", key_id |-> 0, body |-> [id |-> None, valid |-> FALSE],
   headers |-> EmptyJson, route |-> None, tag_header |-> <<>>, upstream_calls |-> 0,
   lookups |-> 0, after |-> 0, served_after |-> 0, up |-> NoResponse,
   response |-> NoResponse, pending |-> <<>>, accumulated |-> <<>>, sent |-> NoSent,
   db |-> "none", method |-> None, path |-> None]

\* extract_proxy_key (398-417): the key the headers carry, 0 if they carry none
\* a header value: Authorization is a scheme and a key, x-api-key a key;
\* the key 0 stands for the empty string
Bearer(k) == [key |-> k, scheme |-> "bearer"]

extract_proxy_key(headers) ==
  LET auth == Get(headers, "authorization", [key |-> 0, scheme |-> ""])
  IN IF auth.scheme = "bearer" THEN auth.key ELSE Get(headers, "x-api-key", 0)

\* get_api_key_by_proxy without the filter on the provider
get_api_key_by_proxy_AnyProvider(proxy_key, provider) ==
  IF \E i \in DOMAIN api_keys : api_keys[i].proxy_key = proxy_key /\ api_keys[i].is_active
  THEN CHOOSE i \in DOMAIN api_keys : api_keys[i].proxy_key = proxy_key /\ api_keys[i].is_active
  ELSE 0

\* get_api_key_by_proxy without the filter on is_active
get_api_key_by_proxy_Inactive(proxy_key, provider) ==
  IF \E i \in DOMAIN api_keys : api_keys[i].proxy_key = proxy_key /\ api_keys[i].provider = provider
  THEN CHOOSE i \in DOMAIN api_keys :
         api_keys[i].proxy_key = proxy_key /\ api_keys[i].provider = provider
  ELSE 0

\* get_api_key_by_proxy (383-395): the id of the row found, 0 for 401
get_api_key_by_proxy(proxy_key, provider) ==
  IF \E i \in DOMAIN api_keys : /\ api_keys[i].proxy_key = proxy_key
                                /\ api_keys[i].provider = provider
                                /\ api_keys[i].is_active
  THEN CHOOSE i \in DOMAIN api_keys : /\ api_keys[i].proxy_key = proxy_key
                                      /\ api_keys[i].provider = provider
                                      /\ api_keys[i].is_active
  ELSE 0

\* the handler up to `await request.body()`, for a request of the route with
\* the given method and {path:path}
ProxyAuthAt(r, headers, provider, method, path, body, tag_header) ==
  /\ reqs[r].pc = "idle"
  /\ \A j \in 1..(r - 1) : reqs[j].pc # "idle"
  /\ LET proxy_key == extract_proxy_key(headers)
         key_id == IF proxy_key = 0 THEN 0 ELSE get_api_key_by_proxy(proxy_key, provider)
         arrived == [IdleReq EXCEPT !.key = proxy_key, !.route = provider, !.body = body,
                                    !.tag_header = tag_header, !.after = LastAnswered,
                                    !.headers = headers, !.db = "open",
                                    !.method = method, !.path = path]
     IN IF key_id = 0
        THEN reqs' = [reqs EXCEPT ![r] = [arrived EXCEPT !.pc = "rejected",
                          !.response = [status |-> 401, content |-> "error",
                                        media_type |-> "application/json"]]]
        ELSE reqs' = [reqs EXCEPT ![r] = [arrived EXCEPT !.pc = "body", !.key_id = key_id,
                                            !.user_id = api_keys[key_id].user_id]]
  /\ UNCHANGED <<tableVars, hookVars, api_keys, tags, log_tags, response_cache, now, last_op>>

\* a POST to the route's usual endpoint
ProxyAuth(r, headers, provider, body, tag_header) ==
  ProxyAuthAt(r, headers, provider, "POST",
              CASE provider = "openai" -> "v1/chat/completions"
                [] provider = "anthropic" -> "v1/messages"
                [] OTHER -> "v1beta/models/gemini-1.5-flash:generateContent",
              body, tag_header)

\* the exit of get_db (database.py 96-99), which the framework runs when the
\* request is over: after the handler returned or raised and the response, a
\* stream included, was sent or cancelled.  It is ordered against nothing
\* else: the tasks of asyncio.create_task start whenever the loop is free.
get_db_close(r) ==
  /\ reqs[r].pc \in {"rejected", "done", "cancelled"}
  /\ reqs[r].db = "open"
  /\ reqs' = [reqs EXCEPT ![r].db = "closed"]
  /\ UNCHANGED <<tableVars, hookVars, api_keys, tags, log_tags, response_cache, now, last_op>>

\* decrypt_api_key(api_key_record.encrypted_key) (572-574): the provider secret
\* stored with the row; the secret of row i is -i, no proxy key is negative
real_api_key(key_id) == 0 - key_id

\* {k: v for k, v in headers.items() if k.lower() not in names}
Without(headers, names) == [k \in DOMAIN headers \ names |-> headers[k]]

\* openai_provider.py 152-154
OpenAIProvider_proxy_request(headers, api_key) ==
  [headers |-> ("authorization" :> Bearer(api_key))
                 @@ Without(headers, {"host", "authorization", "content-length"}),
   url_key |-> 0]

\* anthropic_provider.py 132-138
AnthropicProvider_proxy_request(headers, api_key) ==
  [headers |-> ("x-api-key" :> api_key)
                 @@ ("anthropic-version" :> Get(headers, "anthropic-version", "2023-06-01"))
                 @@ Without(headers, {"host", "x-api-key", "authorization", "content-length"}),
   url_key |-> 0]

\* google_provider.py 125-136 (and 161-171 of stream_request)
GoogleProvider_proxy_request(headers, api_key) ==
  [headers |-> Without(headers, {"host", "authorization", "x-api-key", "content-length"}),
   url_key |-> api_key]

\* provider.proxy_request (641-647, 819-825, 976-982)
proxy_request(provider, headers, api_key) ==
  CASE provider = "openai" -> OpenAIProvider_proxy_request(headers, api_key)
    [] provider = "anthropic" -> AnthropicProvider_proxy_request(headers, api_key)
    [] OTHER -> GoogleProvider_proxy_request(headers, api_key)

\* lines 583-590: json.loads of the body, the defaults kept on a decode error
BodyJson(body) == IF body.valid THEN body.json ELSE EmptyJson
RequestModel(provider, body) == Get(BodyJson(body), "model", DefaultModel(provider))
\* IsStreaming that takes no request for a streaming one
IsStreaming_Never(body) == FALSE

\* line 588
IsStreaming(body) == Get(BodyJson(body), "stream", FALSE)

\* HitLog that charges the cost recorded in the cache entry
HitLog_Charged(u, provider, meta, request_model, r) ==
  UsageLog(u, provider, Get(meta, "model", request_model), Get(meta, "input_tokens", 0),
           Get(meta, "output_tokens", 0), Get(meta, "cost_usd", 0), 0, TRUE, today, r)

\* lines 616-625
HitLog(u, provider, meta, request_model, r) ==
  UsageLog(u, provider, Get(meta, "model", request_model), Get(meta, "input_tokens", 0),
           Get(meta, "output_tokens", 0), 0, 0, TRUE, today, r)

\* lines 630-634
HitResponse(cached_body, meta) ==
  [status |-> Get(meta, "status_code", 200), content |-> cached_body,
   media_type |-> Get(meta, "content_type", "application/json")]

\* Metered with `and` for the `or` of line 683
Metered_Both(input_tokens, output_tokens) == input_tokens > 0 /\ output_tokens > 0

\* line 683 (and 518 of the streaming branch)
Metered(input_tokens, output_tokens) == input_tokens > 0 \/ output_tokens > 0

\* Cacheable without the condition on the token counts
Cacheable_AnyTokens(status, input_tokens, output_tokens) == status = 200

\* line 667
Cacheable(status, input_tokens, output_tokens) ==
  status = 200 /\ (input_tokens > 0 \/ output_tokens > 0)

\* lines 672-679
CacheMetadata(resp, input_tokens, output_tokens, model, cost) ==
  [cost_usd |-> cost, model |-> model, input_tokens |-> input_tokens,
   output_tokens |-> output_tokens,
   content_type |-> Get(resp.headers, "content-type", "application/json"),
   status_code |-> resp.status]

\* lines 706-714
MissResponse(resp) ==
  [status |-> resp.status, content |-> resp.content,
   media_type |-> Get(resp.headers, "content-type", None)]

\* the latency measured around the upstream call, in ms
Latency == 7

\* from the body read to the cache lookup: answered from the cache, or the
\* upstream call is awaited (lines 580-647); a streaming body hands over to
\* the streaming branch
ProxyBody(r) ==
  /\ reqs[r].pc = "body"
  /\ LET q == reqs[r]
         request_model == RequestModel(q.route, q.body)
     IN IF IsStreaming(q.body)
        THEN /\ reqs' = [reqs EXCEPT ![r].pc = "stream_open",
                                     ![r].response = [status |-> 200, content |-> <<>>,
                                                      media_type |-> "text/event-stream"]]
             /\ UNCHANGED <<usage_logs, api_keys, tags, log_tags, response_cache>>
        ELSE LET g == MemoryCache_get(response_cache, q.route, q.body, now)
             IN /\ response_cache' = g.cache
                /\ IF g.hit
                   THEN LET tagged == _auto_tag_log(q.tag_header, Len(usage_logs) + 1,
                                                    q.user_id, tags, log_tags)
                        IN /\ usage_logs' = Append(usage_logs,
                                HitLog(q.user_id, q.route, g.metadata, request_model, r))
                           /\ api_keys' = [api_keys EXCEPT ![q.key_id].last_used_at = now]
                           /\ tags' = tagged.tags
                           /\ log_tags' = tagged.log_tags
                           /\ reqs' = [reqs EXCEPT ![r].pc = "done",
                                         ![r].lookups = q.lookups + 1,
                                         ![r].served_after = LastAnswered,
                                         ![r].response = HitResponse(g.response_body, g.metadata)]
                   ELSE /\ reqs' = [reqs EXCEPT ![r].pc = "upstream",
                                      ![r].lookups = q.lookups + 1,
                                      ![r].served_after = LastAnswered,
                                      ![r].upstream_calls = q.upstream_calls + 1,
                                      ![r].sent = proxy_request(q.route, q.headers,
                                                                real_api_key(q.key_id))]
                        /\ UNCHANGED <<usage_logs, api_keys, tags, log_tags>>
  /\ last_op' = NoOp
  /\ UNCHANGED <<budgets, webhooks, today, hookVars, now>>

\* the upstream response arrives: metering, cache write, usage log, post-hooks,
\* tags, and the response to the caller (lines 648-714)
ProxyUpstreamReturn(r, resp) ==
  /\ reqs[r].pc = "upstream"
  /\ LET q == reqs[r]
         request_model == RequestModel(q.route, q.body)
         parsed == resp.status = 200 /\ resp.valid
         usage == IF parsed THEN extract_usage(q.route, resp.json) ELSE <<0, 0>>
         actual_model == IF parsed THEN extract_model(q.route, resp.json, request_model)
                         ELSE request_model
         cost == calculate_cost(q.route, actual_model, usage[1], usage[2])
         tagged == _auto_tag_log(q.tag_header, Len(usage_logs) + 1, q.user_id, tags, log_tags)
     IN /\ response_cache' =
             IF Cacheable(resp.status, usage[1], usage[2])
             THEN MemoryCache_set(response_cache, q.route, q.body, resp.content,
                                  CacheMetadata(resp, usage[1], usage[2], actual_model, cost),
                                  now)
             ELSE response_cache
        /\ IF Metered(usage[1], usage[2])
           THEN /\ usage_logs' = Append(usage_logs,
                     UsageLog(q.user_id, q.route, actual_model, usage[1], usage[2], cost,
                              Latency, FALSE, today, r))
                /\ api_keys' = [api_keys EXCEPT ![q.key_id].last_used_at = now]
                /\ create_tasks(r, q.user_id)
                /\ tags' = tagged.tags
                /\ log_tags' = tagged.log_tags
           ELSE UNCHANGED <<usage_logs, api_keys, alert_tasks, anomaly_tasks, tags, log_tags>>
        /\ reqs' = [reqs EXCEPT ![r].pc = "done", ![r].up = resp,
                                ![r].response = MissResponse(resp)]
  /\ last_op' = Answered(r)
  /\ UNCHANGED <<budgets, webhooks, today, fired_alerts, fired_anomaly_alerts, posts, now>>

\* the upstream response arrives and the db.commit() of line 698 raises: the
\* cache write of lines 667-680 has happened, the exception leaves the
\* handler (nothing catches it), the session's rows are not stored and the
\* caller gets a 500
ProxyCommitRaises(r, resp) ==
  /\ reqs[r].pc = "upstream"
  /\ LET q == reqs[r]
         request_model == RequestModel(q.route, q.body)
         parsed == resp.status = 200 /\ resp.valid
         usage == IF parsed THEN extract_usage(q.route, resp.json) ELSE <<0, 0>>
         actual_model == IF parsed THEN extract_model(q.route, resp.json, request_model)
                         ELSE request_model
         cost == calculate_cost(q.route, actual_model, usage[1], usage[2])
     IN /\ Metered(usage[1], usage[2])
        /\ response_cache' =
             IF Cacheable(resp.status, usage[1], usage[2])
             THEN MemoryCache_set(response_cache, q.route, q.body, resp.content,
                                  CacheMetadata(resp, usage[1], usage[2], actual_model, cost),
                                  now)
             ELSE response_cache
        /\ reqs' = [reqs EXCEPT ![r].pc = "done", ![r].up = resp,
                                ![r].response = [status |-> 500, content |-> "error",
                                                 media_type |-> "text/plain"]]
  /\ last_op' = NoOp
  /\ UNCHANGED <<tableVars, hookVars, api_keys, tags, log_tags, now>>

\* clear_cache (main.py 1607-1614) and MemoryCache.clear
clear_cache ==
  /\ response_cache # EmptyCache
  /\ response_cache' = EmptyCache
  /\ last_op' = NoOp
  /\ UNCHANGED <<tableVars, hookVars, api_keys, tags, log_tags, now, reqs>>

MaxTime == 3

Tick ==
  /\ now < MaxTime
  /\ now' = now + 1
  /\ last_op' = NoOp
  /\ UNCHANGED <<tableVars, hookVars, api_keys, tags, log_tags, response_cache, reqs>>

(***************************************************************************)
(* What the clients send and what the providers answer.                    *)
(***************************************************************************)
Body(id, json) == [id |-> id, valid |-> TRUE, json |-> json]

PlainBody == Body("chat", [messages |-> "hi"])
ModelBody == Body("chat-4o", [model |-> "gpt-4o", messages |-> "hi"])
StreamBody == Body("chat-stream", [messages |-> "hi", stream |-> TRUE])

\* a 200 response in the provider's format
UsageJson(provider, input_tokens, output_tokens) ==
  CASE provider = "openai" ->
         [model |-> "gpt-4o-mini",
          usage |-> [prompt_tokens |-> input_tokens, completion_tokens |-> output_tokens]]
    [] provider = "anthropic" ->
         [model |-> "claude-3-5-haiku-20241022",
          usage |-> [input_tokens |-> input_tokens, output_tokens |-> output_tokens]]
    [] OTHER ->
         [modelVersion |-> "gemini-1.5-pro",
          usageMetadata |-> [promptTokenCount |-> input_tokens,
                             candidatesTokenCount |-> output_tokens]]

JsonHeaders == [k \in {"content-type"} |-> "application/json"]

UpstreamResponse(status, content, valid, json, headers) ==
  [status |-> status, headers |-> headers, valid |-> valid, content |-> content, json |-> json]

UpstreamResponses(provider) ==
  { UpstreamResponse(200, "completion", TRUE, UsageJson(provider, 16, 8), JsonHeaders),
    UpstreamResponse(200, "embedding", TRUE, UsageJson(provider, 7, 0), JsonHeaders),
    UpstreamResponse(200, "no-usage", TRUE, [id |-> "x"], JsonHeaders),
    UpstreamResponse(200, "not-json", FALSE, EmptyJson, JsonHeaders),
    UpstreamResponse(200, "bare", TRUE, UsageJson(provider, 16, 8), EmptyJson),
    UpstreamResponse(500, "upstream-error", TRUE, UsageJson(provider, 16, 8), JsonHeaders) }

(***************************************************************************)
(* Streaming branch: _stream_and_log (main.py 444-538) behind a            *)
(* StreamingResponse (595-610, 773-788, 929-944).                          *)
(***************************************************************************)
\* Frames without the status and headers frame
Frames_NoHead(upstream) == upstream.chunks

\* the frames an adapter yields for what the upstream sends: the status and
\* headers first, then the chunks (google_provider.py 147-177)
Frames(upstream) ==
  <<[status |-> upstream.status, headers |-> upstream.headers]>> \o upstream.chunks

GoogleProvider_stream_request(upstream) == Frames(upstream)

\* the adapters of OpenAI and Anthropic define no stream_request in the
\* sources; main.py 466 and tests/test_streaming.py call it with the contract
\* "yields the status/header frame first, then raw upstream bytes"
OpenAIProvider_stream_request(upstream) == Frames(upstream)
AnthropicProvider_stream_request(upstream) == Frames(upstream)

\* provider_cls.stream_request (line 466)
stream_request(provider, upstream) ==
  CASE provider = "openai" -> OpenAIProvider_stream_request(upstream)
    [] provider = "anthropic" -> AnthropicProvider_stream_request(upstream)
    [] OTHER -> GoogleProvider_stream_request(upstream)

\* an SSE line: "data: <json>", "data: [DONE]", or anything else
DataLine(json) == [kind |-> "data", valid |-> TRUE, json |-> json]
OtherLine == [kind |-> "other", valid |-> FALSE, json |-> EmptyJson]

\* lines 489-511: the walk over the lines, last line first
RECURSIVE ParseWalk(_, _, _, _, _, _)
ParseWalk(lines, i, input_tokens, output_tokens, actual_model, request_model) ==
  IF i = 0
  THEN [model |-> actual_model, input_tokens |-> input_tokens, output_tokens |-> output_tokens]
  ELSE LET line == lines[i]
       IN IF line.kind # "data" \/ ~line.valid
          THEN ParseWalk(lines, i - 1, input_tokens, output_tokens, actual_model, request_model)
          ELSE LET event_data == line.json
               IN IF "usage" \in DOMAIN event_data
                  THEN [model |-> Get(event_data, "model", request_model),
                        input_tokens |-> Get(event_data.usage, "prompt_tokens", 0),
                        output_tokens |-> Get(event_data.usage, "completion_tokens", 0)]
                  ELSE IF Get(event_data, "type", None) = "message_delta"
                          /\ "usage" \in DOMAIN event_data
                  THEN [model |-> actual_model,
                        input_tokens |-> input_tokens,
                        output_tokens |-> Get(event_data.usage, "output_tokens", 0)]
                  ELSE IF Get(event_data, "type", None) = "message_start"
                          /\ "message" \in DOMAIN event_data
                  THEN LET msg == event_data.message
                       IN ParseWalk(lines, i - 1,
                                    IF "usage" \in DOMAIN msg
                                    THEN Get(msg.usage, "input_tokens", 0) ELSE input_tokens,
                                    output_tokens, Get(msg, "model", request_model),
                                    request_model)
                  ELSE ParseWalk(lines, i - 1, input_tokens, output_tokens, actual_model,
                                 request_model)

ParseUsage(lines, request_model) ==
  ParseWalk(lines, Len(lines), 0, 0, request_model, request_model)

\* Starlette starts iterating the generator: the adapter opens the upstream
\* stream and its first yield, (status, headers), is skipped (lines 466-479).
\* The headers the adapter sends are recorded for Google, whose
\* stream_request is in the sources.
StreamOpen(r, upstream) ==
  /\ reqs[r].pc = "stream_open"
  /\ LET frames == stream_request(reqs[r].route, upstream)
     IN reqs' = [reqs EXCEPT ![r].pc = "streaming", ![r].up = upstream,
                             ![r].upstream_calls = reqs[r].upstream_calls + 1,
                             ![r].sent = IF reqs[r].route = "google"
                                         THEN GoogleProvider_proxy_request(reqs[r].headers,
                                                real_api_key(reqs[r].key_id))
                                         ELSE reqs[r].sent,
                             ![r].pending = Tail(frames)]
  /\ last_op' = NoOp
  /\ UNCHANGED <<tableVars, hookVars, api_keys, tags, log_tags, response_cache, now>>

\* lines 480-481
StreamChunk(r) ==
  /\ reqs[r].pc = "streaming"
  /\ reqs[r].pending # <<>>
  /\ LET chunk == Head(reqs[r].pending)
     IN reqs' = [reqs EXCEPT ![r].pending = Tail(reqs[r].pending),
                             ![r].accumulated = reqs[r].accumulated \o chunk,
                             ![r].response.content = reqs[r].response.content \o chunk]
  /\ last_op' = NoOp
  /\ UNCHANGED <<tableVars, hookVars, api_keys, tags, log_tags, response_cache, now>>

\* lines 483-538
StreamEnd(r) ==
  /\ reqs[r].pc = "streaming"
  /\ reqs[r].pending = <<>>
  /\ LET q == reqs[r]
         request_model == RequestModel(q.route, q.body)
         parsed == ParseUsage(q.accumulated, request_model)
         cost == calculate_cost(q.route, parsed.model, parsed.input_tokens,
                                parsed.output_tokens)
         tagged == _auto_tag_log(q.tag_header, Len(usage_logs) + 1, q.user_id, tags, log_tags)
     IN IF Metered(parsed.input_tokens, parsed.output_tokens)
        THEN /\ usage_logs' = Append(usage_logs,
                  UsageLog(q.user_id, q.route, parsed.model, parsed.input_tokens,
                           parsed.output_tokens, cost, Latency, FALSE, today, r))
             /\ api_keys' = [api_keys EXCEPT ![q.key_id].last_used_at = now]
             /\ tags' = tagged.tags
             /\ log_tags' = tagged.log_tags
             /\ create_tasks(r, q.user_id)
        ELSE UNCHANGED <<usage_logs, api_keys, alert_tasks, anomaly_tasks, tags, log_tags>>
  /\ reqs' = [reqs EXCEPT ![r].pc = "done"]
  /\ last_op' = NoOp
  /\ UNCHANGED <<budgets, webhooks, today, fired_alerts, fired_anomaly_alerts, posts,
                 response_cache, now>>

\* StreamCancel that leaves the generator running
StreamCancel_Detached(r) ==
  /\ reqs[r].pc = "streaming"
  /\ last_op' = [req |-> r, op |-> "disconnect"]
  /\ UNCHANGED <<tableVars, hookVars, api_keys, tags, log_tags, response_cache, now, reqs>>

\* the client goes away while the stream is open: the response task is
\* cancelled at its await, the exception leaves the loop of lines 475-481 and,
\* through the adapter's generator, the two "async with" blocks of
\* google_provider.py 173-177, which close the upstream; nothing after the
\* loop runs (lines 483-538 are in no finally)
StreamCancel(r) ==
  /\ reqs[r].pc = "streaming"
  /\ reqs' = [reqs EXCEPT ![r].pc = "cancelled"]
  /\ last_op' = [req |-> r, op |-> "disconnect"]
  /\ UNCHANGED <<tableVars, hookVars, api_keys, tags, log_tags, response_cache, now>>

\* the SSE streams of the providers
UpstreamStream(status, chunks) ==
  [status |-> status, headers |-> [k \in {"content-type"} |-> "text/event-stream"],
   chunks |-> chunks]

OpenAIEvents(input_tokens, output_tokens) ==
  << <<DataLine([choices |-> "Hel"]), OtherLine>>,
     <<DataLine([model |-> "gpt-4o-mini", usage |-> [prompt_tokens |-> input_tokens,
                            completion_tokens |-> output_tokens],
                 choices |-> ""]),
       OtherLine, [kind |-> "done", valid |-> FALSE, json |-> EmptyJson]>> >>

AnthropicEvents(input_tokens, output_tokens) ==
  << <<DataLine([type |-> "message_start",
                 message |-> [model |-> "claude-3-5-haiku-20241022",
                              usage |-> [input_tokens |-> input_tokens,
                                         output_tokens |-> 1]]]),
       DataLine([type |-> "content_block_delta", delta |-> "Hel"])>>,
     <<DataLine([type |-> "message_delta", usage |-> [output_tokens |-> output_tokens]]),
       DataLine([type |-> "message_stop"])>> >>

GeminiEvents(input_tokens, output_tokens) ==
  << <<DataLine([candidates |-> "Hel"])>>,
     <<DataLine([modelVersion |-> "gemini-1.5-pro", usageMetadata |-> [promptTokenCount |-> input_tokens,
                                    candidatesTokenCount |-> output_tokens],
                 candidates |-> "lo"])>> >>

ErrorChunks == << <<OtherLine>> >>

\* what the upstream of a route streams back; the Google route also serves
\* the OpenAI-compatible endpoint
UpstreamStreams(provider) ==
  CASE provider = "openai" ->
         {UpstreamStream(200, OpenAIEvents(20, 8)), UpstreamStream(429, ErrorChunks)}
    [] provider = "anthropic" ->
         {UpstreamStream(200, AnthropicEvents(20, 8)), UpstreamStream(429, ErrorChunks)}
    [] OTHER ->
         {UpstreamStream(200, GeminiEvents(20, 8)), UpstreamStream(200, OpenAIEvents(20, 8)),
          UpstreamStream(429, ErrorChunks)}

(***************************************************************************)
(* Tables the post-hooks start from.                                       *)
(***************************************************************************)
BudgetRow(id, u, amount, thr) ==
  [user_id |-> u, amount_usd |-> amount, alert_threshold |-> thr, id |-> id,
   period |-> "monthly"]

WebhookRow(id, u, ev, act) ==
  [user_id |-> u, is_active |-> act, id |-> id, event_type |-> ev]

InitBudgets == <<BudgetRow("b1", "u1", 500, 80), BudgetRow("b2", "u2", 400, 50)>>

InitWebhooks ==
  <<WebhookRow("w1", "u1", "budget_warning", TRUE),
    WebhookRow("w2", "u1", "budget_exceeded", TRUE),
    WebhookRow("w3", "u1", "budget_warning", FALSE),
    WebhookRow("w4", "u2", "budget_warning", TRUE),
    WebhookRow("w5", "u1", "anomaly", TRUE)>>

\* usage of the days before today: one call of u1 on each of the days in ds
RECURSIVE HistoryLogs(_, _, _)
HistoryLogs(day0, ds, call) ==
  IF ds = {} THEN <<>>
  ELSE LET d == CHOOSE x \in ds : \A y \in ds : x >= y
       IN Append(HistoryLogs(day0, ds \ {d}, call),
                 UsageLog("u1", "openai", call[1], call[2], call[3],
                          calculate_cost("openai", call[1], call[2], call[3]),
                          1, FALSE, day0 - d, 0))

Day0 == 100

Histories ==
  { <<>>,
    HistoryLogs(Day0, 1..13, <<"gpt-4o-mini", 20, 5>>),
    HistoryLogs(Day0, {2, 4, 6, 8, 10, 12}, <<"gpt-4o", 10, 5>>),
    HistoryLogs(Day0, 2..14, <<"gpt-4o-mini", 6, 2>>) }

(***************************************************************************)
(* main.py: POST /api/v1/budgets and DELETE /api/v1/budgets/{id}           *)
(***************************************************************************)
\* values generate_uuid can give to a budget
BudgetIds == {"b1", "b2", "b3"}

\* ExistingBudget that never finds the budget
ExistingBudget_None(u) == 0

\* line 1251: the first budget of the tenant, 0 if none
ExistingBudget(u) ==
  IF \E i \in DOMAIN budgets : budgets[i].user_id = u
  THEN CHOOSE i \in DOMAIN budgets :
         /\ budgets[i].user_id = u
         /\ \A j \in DOMAIN budgets : budgets[j].user_id = u => i <= j
  ELSE 0

\* lines 1244-1269; the rest of the handler (1271-1297) only reads
create_budget(u, amount, period, thr) ==
  /\ LET existing == ExistingBudget(u)
     IN IF existing # 0
        THEN budgets' = [budgets EXCEPT ![existing].amount_usd = amount,
                                        ![existing].period = period,
                                        ![existing].alert_threshold = thr]
        ELSE \E id \in BudgetIds \ {budgets[i].id : i \in DOMAIN budgets} :
               budgets' = Append(budgets,
                                 [BudgetRow(id, u, amount, thr) EXCEPT !.period = period])
  /\ last_op' = [user_id |-> u, amount_usd |-> amount, alert_threshold |-> thr,
                  op |-> "create_budget", period |-> period]
  /\ UNCHANGED <<usage_logs, webhooks, today, hookVars, api_keys, tags, log_tags,
                 response_cache, now, reqs>>

\* lines 1300-1320
delete_budget(u, id) ==
  /\ IF \E i \in DOMAIN budgets : budgets[i].id = id /\ budgets[i].user_id = u
     THEN LET i == CHOOSE j \in DOMAIN budgets :
                     budgets[j].id = id /\ budgets[j].user_id = u
          IN budgets' = RemoveAt(budgets, i)
     ELSE UNCHANGED budgets                                      \* 404
  /\ last_op' = NoOp
  /\ UNCHANGED <<usage_logs, webhooks, today, hookVars, api_keys, tags, log_tags,
                 response_cache, now, reqs>>
(***************************************************************************)
(* Specification of the post-hooks alone.                                  *)
(***************************************************************************)
NoProxy ==
  /\ api_keys = <<>>
  /\ tags = <<>>
  /\ log_tags = <<>>
  /\ response_cache = EmptyCache
  /\ now = 1
  /\ reqs = [r \in ReqIds |-> IdleReq]
  /\ last_op = NoOp

InitHooks ==
  /\ usage_logs \in Histories
  /\ budgets = InitBudgets
  /\ webhooks = InitWebhooks
  /\ today = Day0
  /\ fired_alerts = {}
  /\ alert_tasks = [k \in TaskIds |-> IdleTask]
  /\ fired_anomaly_alerts = {}
  /\ anomaly_tasks = [k \in TaskIds |-> IdleAnomalyTask]
  /\ posts = <<>>
  /\ NoProxy

NextHooks ==
  \/ \E u \in Users, c \in Calls, k \in TaskIds : LogAndSchedule(u, c, k)
  \/ \E k \in TaskIds : AlertStart(k)
  \/ \E k \in TaskIds, ok \in BOOLEAN : AlertPostDone(k, ok)
  \/ \E k \in TaskIds : AnomalyStart(k)
  \/ \E k \in TaskIds, ok \in BOOLEAN : AnomalyPostDone(k, ok)

SpecHooks == InitHooks /\ [][NextHooks]_vars

\* the budget watcher alone: the anomaly tasks stay as created
NextAlerts ==
  \/ \E u \in Users, c \in Calls, k \in TaskIds : LogAndSchedule(u, c, k)
  \/ \E k \in TaskIds : AlertStart(k)
  \/ \E k \in TaskIds, ok \in BOOLEAN : AlertPostDone(k, ok)

SpecAlerts == InitHooks /\ [][NextAlerts]_vars

(***************************************************************************)
(* Specifications of the proxy.  The post-hook tasks a request creates are *)
(* left as created.                                                        *)
(***************************************************************************)
NoHooks ==
  /\ usage_logs = <<>>
  /\ budgets = InitBudgets
  /\ webhooks = InitWebhooks
  /\ today = Day0
  /\ fired_alerts = {}
  /\ alert_tasks = [k \in TaskIds |-> IdleTask]
  /\ fired_anomaly_alerts = {}
  /\ anomaly_tasks = [k \in TaskIds |-> IdleAnomalyTask]
  /\ posts = <<>>

InitProxy ==
  /\ NoHooks
  \* credentials the tenants have created: u1 and u2 for OpenAI, u1 for
  \* Anthropic, u2 for Google
  /\ api_keys = <<ApiKey(1, "u1", "openai"), ApiKey(2, "u2", "openai"),
                  ApiKey(3, "u1", "anthropic"), ApiKey(4, "u2", "google")>>
  /\ tags = <<>>
  /\ log_tags = <<>>
  /\ response_cache = EmptyCache
  /\ now = 1
  /\ reqs = [r \in ReqIds |-> IdleReq]
  /\ last_op = NoOp

XApiKey(k) == [h \in {"x-api-key"} |-> k]

\* the unary requests of the clients: headers, route, body, X-LLMLab-Tags
Client(headers, provider, body, tag_header) ==
  [provider |-> provider, body |-> body, headers |-> headers, tag_header |-> tag_header]

UnaryClients ==
  { Client([authorization |-> Bearer(1)], "openai", PlainBody, <<>>),
    Client(XApiKey(2), "openai", PlainBody, <<"a", " a", " ">>),
    Client([authorization |-> Bearer(1)], "openai", ModelBody, <<"a">>),
    Client([authorization |-> Bearer(3)], "anthropic", PlainBody, <<>>),
    \* bytes that json.loads rejects
    Client(XApiKey(4), "google", [id |-> "not-json", valid |-> FALSE], <<>>) }

NextProxy ==
  \/ \E r \in ReqIds, c \in UnaryClients :
       ProxyAuth(r, c.headers, c.provider, c.body, c.tag_header)
  \/ \E r \in ReqIds : ProxyBody(r)
  \/ \E r \in ReqIds, p \in Providers : \E resp \in UpstreamResponses(p) :
       reqs[r].route = p /\ ProxyUpstreamReturn(r, resp)

SpecProxy == InitProxy /\ [][NextProxy]_vars

\* the cache over time: two tenants send the same and another body
CacheClients ==
  { Client([authorization |-> Bearer(1)], "openai", PlainBody, <<>>),
    Client(XApiKey(2), "openai", PlainBody, <<>>),
    Client([authorization |-> Bearer(1)], "openai", ModelBody, <<>>) }

CacheResponses ==
  { UpstreamResponse(200, "completion", TRUE, UsageJson("openai", 16, 8), JsonHeaders),
    UpstreamResponse(200, "bare", TRUE, UsageJson("openai", 16, 8), EmptyJson),
    UpstreamResponse(500, "upstream-error", TRUE, UsageJson("openai", 16, 8), JsonHeaders) }

NextCache ==
  \/ \E r \in ReqIds, c \in CacheClients :
       ProxyAuth(r, c.headers, c.provider, c.body, c.tag_header)
  \/ \E r \in ReqIds : ProxyBody(r)
  \/ \E r \in ReqIds, resp \in CacheResponses : ProxyUpstreamReturn(r, resp)
  \/ clear_cache
  \/ Tick

SpecCache == InitProxy /\ [][NextCache]_vars

\* credentials are created and deleted while a client presents proxy keys,
\* one request after the other
InitKeyOps ==
  /\ NoHooks
  /\ NoProxy

OkResponse(provider) ==
  UpstreamResponse(200, "completion", TRUE, UsageJson(provider, 16, 8), JsonHeaders)

\* the headers presented: no key, a key in Authorization, a key in x-api-key
\* behind an Authorization of another scheme
NextKeyOps ==
  \/ \E o \in {<<"u1", "openai">>, <<"u1", "anthropic">>, <<"u2", "openai">>} :
       create_api_key(o[1], o[2])
  \/ \E u \in Users, id \in 1..MaxKeys : delete_api_key(u, id)
  \/ \E r \in ReqIds, p \in {"openai", "anthropic"},
        h \in { EmptyJson, [authorization |-> Bearer(1)],
                [n \in {"authorization", "x-api-key"} |->
                   IF n = "authorization" THEN [key |-> 1, scheme |-> "basic"] ELSE 2] } :
       /\ \A j \in ReqIds : reqs[j].pc \in {"idle", "done", "rejected"}
       /\ ProxyAuth(r, h, p, PlainBody, <<>>)
  \/ \E r \in ReqIds : ProxyBody(r)
  \/ \E r \in ReqIds : ProxyUpstreamReturn(r, OkResponse(reqs[r].route))

SpecKeyOps == InitKeyOps /\ [][NextKeyOps]_vars

\* the Google route, unary and streaming
GoogleClients ==
  { Client(XApiKey(4), "google", PlainBody, <<>>),
    Client([authorization |-> Bearer(4)], "google", StreamBody, <<"a">>) }

NextGoogle ==
  \/ \E r \in ReqIds, c \in GoogleClients :
       ProxyAuth(r, c.headers, c.provider, c.body, c.tag_header)
  \/ \E r \in ReqIds : ProxyBody(r)
  \/ \E r \in ReqIds, resp \in UpstreamResponses("google") : ProxyUpstreamReturn(r, resp)
  \/ \E r \in ReqIds, s \in UpstreamStreams("google") : StreamOpen(r, s)
  \/ \E r \in ReqIds : StreamChunk(r)
  \/ \E r \in ReqIds : StreamEnd(r)
  \/ \E r \in ReqIds : StreamCancel(r)

SpecGoogle == InitProxy /\ [][NextGoogle]_vars

\* streaming requests
StreamClients ==
  { Client([authorization |-> Bearer(1)], "openai", StreamBody, <<>>),
    Client([authorization |-> Bearer(3)], "anthropic", StreamBody, <<"a">>),
    Client(XApiKey(4), "google", StreamBody, <<"a">>) }

NextStream ==
  \/ \E r \in ReqIds, c \in StreamClients :
       ProxyAuth(r, c.headers, c.provider, c.body, c.tag_header)
  \/ \E r \in ReqIds : ProxyBody(r)
  \/ \E r \in ReqIds, p \in Providers : \E s \in UpstreamStreams(p) :
       reqs[r].route = p /\ StreamOpen(r, s)
  \/ \E r \in ReqIds : StreamChunk(r)
  \/ \E r \in ReqIds : StreamEnd(r)

SpecStream == InitProxy /\ [][NextStream]_vars

\* tags: requests with X-LLMLab-Tags on the three paths (miss, hit, stream)
\* and explicit creations
TagClients ==
  { Client([authorization |-> Bearer(1)], "openai", PlainBody, <<"a", " a", " ", "b">>),
    Client(XApiKey(2), "openai", PlainBody, <<"b">>),
    Client(XApiKey(4), "google", StreamBody, <<"b", "a">>) }

NextTags ==
  \/ \E u \in Users : create_tag(u, "a")
  \/ \E r \in ReqIds, c \in TagClients :
       ProxyAuth(r, c.headers, c.provider, c.body, c.tag_header)
  \/ \E r \in ReqIds : ProxyBody(r)
  \/ \E r \in ReqIds, resp \in CacheResponses : ProxyUpstreamReturn(r, resp)
  \/ \E r \in ReqIds, s \in UpstreamStreams("google") : StreamOpen(r, s)
  \/ \E r \in ReqIds : StreamChunk(r)
  \/ \E r \in ReqIds : StreamEnd(r)

SpecTags == InitProxy /\ [][NextTags]_vars

\* links: unary requests of two tenants, one with X-LLMLab-Tags, explicit
\* creations, and attach and detach calls that name own and foreign logs and
\* tags
NextLinks ==
  \/ create_tag("u1", "a")
  \/ \E r \in ReqIds, c \in {Client([authorization |-> Bearer(1)], "openai", PlainBody, <<>>),
                             Client(XApiKey(2), "openai", ModelBody, <<"b">>)} :
       ProxyAuth(r, c.headers, c.provider, c.body, c.tag_header)
  \/ \E r \in ReqIds : ProxyBody(r)
  \/ \E r \in ReqIds : ProxyUpstreamReturn(r,
       UpstreamResponse(200, "completion", TRUE, UsageJson("openai", 16, 8), JsonHeaders))
  \/ \E u \in Users, log_id \in ReqIds : attach_tags(u, log_id, <<2, 1, 2>>)
  \/ \E u \in Users, log_id \in ReqIds, tag_id \in 1..2 : detach_tag(u, log_id, tag_id)

SpecLinks == InitProxy /\ [][NextLinks]_vars

\* budgets: the tenants post amounts, periods and thresholds, and delete
NextBudgets ==
  \/ \E u \in Users, a \in {400, 500}, p \in {"monthly", "weekly"}, t \in {50, 80} :
       create_budget(u, a, p, t)
  \/ \E u \in Users, id \in BudgetIds : delete_budget(u, id)

SpecBudgets == InitProxy /\ [][NextBudgets]_vars

\* headers: the clients send Host, Content-Length and Content-Type besides
\* the header that carries the proxy key
HeaderClients ==
  LET Inbound(auth) ==
        auth @@ [h \in {"host", "content-length", "content-type"} |->
                   CASE h = "host" -> "proxy.local"
                     [] h = "content-length" -> "42"
                     [] OTHER -> "application/json"]
  IN { Client(Inbound([authorization |-> Bearer(1)]), "openai", PlainBody, <<>>),
       Client(Inbound(XApiKey(2)), "openai", PlainBody, <<>>),
       Client(Inbound(XApiKey(3)), "anthropic", PlainBody, <<>>),
       Client(Inbound([authorization |-> Bearer(3)]), "anthropic", ModelBody, <<>>),
       Client(Inbound(XApiKey(4)), "google", PlainBody, <<>>),
       Client(Inbound([authorization |-> Bearer(4)]), "google", StreamBody, <<>>) }

NextHeaders ==
  \/ \E r \in ReqIds, c \in HeaderClients :
       ProxyAuth(r, c.headers, c.provider, c.body, c.tag_header)
  \/ \E r \in ReqIds : ProxyBody(r)
  \/ \E r \in ReqIds, p \in Providers :
       reqs[r].route = p /\ ProxyUpstreamReturn(r, OkResponse(p))
  \/ \E r \in ReqIds, s \in UpstreamStreams("google") : StreamOpen(r, s)
  \/ \E r \in ReqIds : StreamChunk(r)
  \/ \E r \in ReqIds : StreamEnd(r)

SpecHeaders == InitProxy /\ [][NextHeaders]_vars

\* the cache under repeated requests, never cleared
NextRepeat ==
  \/ \E r \in ReqIds, c \in CacheClients :
       ProxyAuth(r, c.headers, c.provider, c.body, c.tag_header)
  \/ \E r \in ReqIds : ProxyBody(r)
  \/ \E r \in ReqIds, resp \in CacheResponses : ProxyUpstreamReturn(r, resp)
  \/ Tick

SpecRepeat == InitProxy /\ [][NextRepeat]_vars

\* the cache on its own: three keys, two stored values
NextLRU ==
  \/ \E k \in {<<"openai", PlainBody>>, <<"openai", ModelBody>>, <<"google", PlainBody>>} :
       \/ CacheGet(k[1], k[2])
       \/ \E v \in {<<"completion", [model |-> "gpt-4o"]>>,
                     <<"bare", [model |-> "gpt-4o-mini"]>>} :
            CacheSet(k[1], k[2], v[1], v[2])
  \/ clear_cache
  \/ Tick

SpecLRU == InitProxy /\ [][NextLRU]_vars

\* the requests of the Google route, to the endpoints of two models, with
\* their sessions, their post-hooks and a database that may refuse a commit
NextLifecycle ==
  \/ NextGoogle
  \/ \E r \in ReqIds :
       ProxyAuthAt(r, XApiKey(4), "google", "POST",
                   "v1beta/models/gemini-1.5-pro:generateContent", PlainBody, <<>>)
  \/ \E r \in ReqIds, resp \in UpstreamResponses("google") : ProxyCommitRaises(r, resp)
  \/ \E r \in ReqIds : get_db_close(r)
  \/ \E k \in TaskIds : AlertStart(k)
  \/ \E k \in TaskIds : AnomalyStart(k)

SpecLifecycle == InitProxy /\ [][NextLifecycle]_vars
(***************************************************************************)
(* C1: under any interleaving of check_and_fire_alerts tasks of a tenant,  *)
(* every active webhook whose event_type matches receives at most one POST *)
(* for a given (tenant, budget, status) tuple.                             *)
(***************************************************************************)
DeliveredBudgetPosts(w, u, b, s) ==
  {i \in DOMAIN posts : /\ posts[i].kind = "budget" /\ posts[i].delivered
                        /\ posts[i].webhook = w /\ posts[i].user_id = u
                        /\ posts[i].budget = b /\ posts[i].event = s}

C1_AtMostOnePostPerTuple ==
  \A i \in DOMAIN posts :
    posts[i].kind = "budget" =>
      Cardinality(DeliveredBudgetPosts(posts[i].webhook, posts[i].user_id,
                                       posts[i].budget, posts[i].event)) <= 1

(***************************************************************************)
(* C2: under any interleaving of check_and_fire_anomaly_alerts tasks of a  *)
(* tenant at most one burst of anomaly POSTs is sent for a (tenant, UTC    *)
(* date): all anomaly POSTs of that tenant and date come from one task and *)
(* each webhook gets each anomaly once; an anomaly of severity info never  *)
(* causes a POST.                                                          *)
(***************************************************************************)
AnomalyPosts(u, d) ==
  {i \in DOMAIN posts : posts[i].kind = "anomaly" /\ posts[i].user_id = u /\ posts[i].day = d}

C2_OneAnomalyBurstPerDay ==
  /\ \A i, j \in DOMAIN posts :
       (posts[i].kind = "anomaly" /\ posts[j].kind = "anomaly"
        /\ posts[i].user_id = posts[j].user_id /\ posts[i].day = posts[j].day)
         => posts[i].task = posts[j].task
  /\ \A i \in DOMAIN posts : posts[i].kind = "anomaly" => posts[i].severity # "info"

(***************************************************************************)
(* C3: every unary request that was forwarded upstream and got a 200 with  *)
(* a parseable body in which an extracted token count is positive has      *)
(* exactly one usage log, also when identical requests miss the cache      *)
(* concurrently.                                                           *)
(***************************************************************************)
LogsOfRequest(r) == {i \in DOMAIN usage_logs : usage_logs[i].req = r}

ForwardedMetered200(r) ==
  /\ reqs[r].pc = "done"
  /\ reqs[r].upstream_calls > 0
  /\ reqs[r].up.status = 200
  /\ reqs[r].up.valid
  /\ LET usage == extract_usage(reqs[r].route, reqs[r].up.json)
     IN usage[1] > 0 \/ usage[2] > 0

KeyMissing(k) == k = 0
KeyUnknown(k) == \A i \in DOMAIN api_keys : api_keys[i].proxy_key # k
KeyInactive(k) == \E i \in DOMAIN api_keys : api_keys[i].proxy_key = k /\ ~api_keys[i].is_active
KeyOfOtherProvider(k, route) ==
  \E i \in DOMAIN api_keys : api_keys[i].proxy_key = k /\ api_keys[i].provider # route

Arrives(r) == reqs[r].pc = "idle" /\ reqs'[r].pc # "idle"

C4_InvalidKeyRejectedFirst ==
  [][\A r \in ReqIds :
       /\ (Arrives(r) /\ (\/ KeyMissing(reqs'[r].key)
                          \/ KeyUnknown(reqs'[r].key)
                          \/ KeyInactive(reqs'[r].key)
                          \/ KeyOfOtherProvider(reqs'[r].key, reqs'[r].route)))
          => /\ reqs'[r].pc = "rejected"
             /\ reqs'[r].response.status = 401
             /\ reqs'[r].lookups = 0 /\ reqs'[r].upstream_calls = 0
             /\ response_cache' = response_cache
             /\ usage_logs' = usage_logs
             /\ api_keys' = api_keys
       /\ reqs[r].pc = "rejected" => reqs'[r] = reqs[r]]_vars

\* an active OpenAI key was presented on the Anthropic route, or the reverse
C4_Witness ==
  \E r \in ReqIds :
    /\ reqs[r].pc = "rejected"
    /\ reqs[r].key \in DOMAIN api_keys
    /\ api_keys[reqs[r].key].is_active
    /\ api_keys[reqs[r].key].provider # reqs[r].route

(***************************************************************************)
(* C5: a credential that is inactive stays inactive whatever key           *)
(* operations follow, and every proxy request that arrives with its proxy  *)
(* key is answered 401, also when the response cache holds the request's   *)
(* body.                                                                   *)
(***************************************************************************)
C5_DeletedKeyNeverResolves ==
  [][/\ \A i \in DOMAIN api_keys :
          ~api_keys[i].is_active => (i \in DOMAIN api_keys' /\ ~api_keys'[i].is_active)
     /\ \A r \in ReqIds :
          (Arrives(r) /\ KeyInactive(reqs'[r].key))
          => (reqs'[r].pc = "rejected" /\ reqs'[r].response.status = 401)]_vars

\* the deleted key is presented on its own route, the cache holds the body,
\* and the tenant has created a new credential for the provider since
C5_Witness ==
  \E r \in ReqIds :
    /\ reqs[r].pc = "rejected"
    /\ reqs[r].key \in DOMAIN api_keys
    /\ ~api_keys[reqs[r].key].is_active
    /\ api_keys[reqs[r].key].provider = reqs[r].route
    /\ KeyIndex(response_cache.entries, _make_key(reqs[r].route, reqs[r].body)) # 0
    /\ \E j \in DOMAIN api_keys :
         /\ j > reqs[r].key
         /\ api_keys[j].user_id = api_keys[reqs[r].key].user_id
         /\ api_keys[j].provider = api_keys[reqs[r].key].provider
         /\ api_keys[j].is_active

(***************************************************************************)
(* C6: after every step each (tenant, provider) pair has at most one       *)
(* active credential, and a create for a pair that has an active           *)
(* credential answers 400 and leaves the credentials as they were.         *)
(***************************************************************************)
ActiveKeysOf(keys, u, provider) ==
  {i \in DOMAIN keys : keys[i].user_id = u /\ keys[i].provider = provider /\ keys[i].is_active}

AtMostOneActive(keys) ==
  \A u \in Users, p \in Providers : Cardinality(ActiveKeysOf(keys, u, p)) <= 1

CreateStep(u, provider) ==
  /\ last_op'.op = "create" /\ last_op'.user_id = u /\ last_op'.provider = provider
  /\ reqs' = reqs

C6_OneActiveKeyPerPair ==
  [][/\ AtMostOneActive(api_keys')
     /\ \A u \in Users, p \in Providers :
          (CreateStep(u, p) /\ ActiveKeysOf(api_keys, u, p) # {})
          => (last_op'.status = 400 /\ api_keys' = api_keys)]_vars

\* a create was refused for a pair that has a deleted and an active credential
C6_Witness ==
  /\ last_op.op = "create" /\ last_op.status = 400
  /\ \E i, j \in DOMAIN api_keys :
       /\ api_keys[i].user_id = last_op.user_id /\ api_keys[i].provider = last_op.provider
       /\ api_keys[j].user_id = last_op.user_id /\ api_keys[j].provider = last_op.provider
       /\ ~api_keys[i].is_active /\ api_keys[j].is_active

(***************************************************************************)
(* C7: when a unary request got a metered 200 from upstream and the same   *)
(* (provider, body) is sent again right after it, the second               *)
(* request makes no upstream call and is answered with the body, the       *)
(* status code and the content type of the first answer.                   *)
(***************************************************************************)
\* r2 arrived and looked the cache up with nothing but the completion of r1
\* before it
InSuccession(r1, r2) ==
  /\ r1 # r2
  /\ ForwardedMetered200(r1)
  /\ reqs[r2].pc \in {"upstream", "done"}
  /\ reqs[r2].after = r1 /\ reqs[r2].served_after = r1
  /\ reqs[r2].route = reqs[r1].route /\ reqs[r2].body = reqs[r1].body

C7_SecondAnsweredAsFirst ==
  \A r1, r2 \in ReqIds :
    InSuccession(r1, r2)
    => /\ reqs[r2].upstream_calls = 0
       /\ reqs[r2].pc = "done"
       /\ reqs[r2].response.content = reqs[r1].response.content
       /\ reqs[r2].response.status = reqs[r1].response.status
       /\ reqs[r2].response.media_type = reqs[r1].response.media_type

(***************************************************************************)
(* C8: whenever a usage log is written, a log of a cache hit has           *)
(* cache_hit = true, cost 0, latency 0 and the tokens and the model of the *)
(* cache entry of the request's (provider, body), and a log with           *)
(* cache_hit = false has the cost the provider's price table gives for its *)
(* model and tokens.                                                       *)
(***************************************************************************)
EntryOf(provider, body) ==
  response_cache.entries[KeyIndex(response_cache.entries, _make_key(provider, body))]

HitLogAsEntry(log) ==
  /\ log.cost_usd = 0 /\ log.latency_ms = 0
  /\ reqs[log.req].lookups = 0 /\ reqs'[log.req].lookups = 1
  /\ KeyIndex(response_cache.entries, _make_key(log.provider, reqs[log.req].body)) # 0
  /\ LET meta == EntryOf(log.provider, reqs[log.req].body).metadata
     IN /\ log.input_tokens = meta.input_tokens
        /\ log.output_tokens = meta.output_tokens
        /\ log.model = meta.model

MissLogPriced(log) ==
  LET price == PricingOf(log.provider, log.model)
  IN log.cost_usd = Round6(log.input_tokens * price.input + log.output_tokens * price.output)

C8_HitAndMissLogs ==
  [][Len(usage_logs') > Len(usage_logs)
     => LET log == usage_logs'[Len(usage_logs')]
        IN IF log.cache_hit THEN HitLogAsEntry(log) ELSE MissLogPriced(log)]_vars

\* a hit of one tenant on the entry of the other, with the model the upstream
\* named, and a miss that cost something
C8_Witness ==
  \E i, j \in DOMAIN usage_logs :
    /\ usage_logs[i].cache_hit /\ ~usage_logs[j].cache_hit
    /\ usage_logs[i].provider = usage_logs[j].provider
    /\ usage_logs[i].user_id # usage_logs[j].user_id
    /\ usage_logs[i].model = "gpt-4o-mini" /\ usage_logs[i].input_tokens = 16
    /\ usage_logs[i].cost_usd = 0 /\ usage_logs[j].cost_usd > 0

(***************************************************************************)
(* C9: when a request that reached the upstream completes and the upstream *)
(* answered with a status other than 200, the caller gets the upstream's   *)
(* status code and body and the step writes no usage log and no cache      *)
(* entry, for unary and for streaming requests.                            *)
(***************************************************************************)
RECURSIVE Concat(_)
Concat(chunks) == IF chunks = <<>> THEN <<>> ELSE Head(chunks) \o Concat(Tail(chunks))

UpstreamBody(up) == IF "chunks" \in DOMAIN up THEN Concat(up.chunks) ELSE up.content

C9_NonOkPassedThrough ==
  [][\A r \in ReqIds :
       (/\ reqs[r].pc # "done" /\ reqs'[r].pc = "done"
        /\ reqs'[r].upstream_calls > 0
        /\ reqs'[r].up.status # 200)
       => /\ reqs'[r].response.status = reqs'[r].up.status
          /\ reqs'[r].response.content = UpstreamBody(reqs'[r].up)
          /\ usage_logs' = usage_logs
          /\ response_cache' = response_cache]_vars

(***************************************************************************)
(* C10: an Anthropic streaming request whose upstream stream is            *)
(* message_start with input_tokens = a, content deltas, message_delta with *)
(* output_tokens = b, message_stop has, once the stream is closed, exactly *)
(* one usage log, with input_tokens = a and output_tokens = b.             *)
(***************************************************************************)
C10_AnthropicStreamLogged ==
  \A r \in ReqIds : \A a, b \in 1..32 :
    (/\ reqs[r].pc = "done"
     /\ reqs[r].route = "anthropic"
     /\ IsStreaming(reqs[r].body)
     /\ reqs[r].up = UpstreamStream(200, AnthropicEvents(a, b)))
    => /\ Cardinality(LogsOfRequest(r)) = 1
       /\ \A i \in LogsOfRequest(r) :
            usage_logs[i].input_tokens = a /\ usage_logs[i].output_tokens = b

(***************************************************************************)
(* C11: the step that ends a stream writes exactly one usage log, with     *)
(* cache_hit = false and the token counts and the model of the last SSE    *)
(* event that carries usage data, if that event reports a token count      *)
(* other than zero; it writes no log, no tag, no link and schedules no     *)
(* post-hook if no event carried usage data.                               *)
(***************************************************************************)
\* the usage data an event carries, in the field names of the three providers
CarriesUsage(ev) == "usage" \in DOMAIN ev \/ "usageMetadata" \in DOMAIN ev

EventUsage(ev) == IF "usage" \in DOMAIN ev THEN ev.usage ELSE ev.usageMetadata

FirstField(d, keys) ==
  IF keys[1] \in DOMAIN d THEN d[keys[1]]
  ELSE IF keys[2] \in DOMAIN d THEN d[keys[2]]
  ELSE IF keys[3] \in DOMAIN d THEN d[keys[3]] ELSE 0

EventInput(ev) == FirstField(EventUsage(ev), <<"prompt_tokens", "input_tokens", "promptTokenCount">>)
EventOutput(ev) ==
  FirstField(EventUsage(ev), <<"completion_tokens", "output_tokens", "candidatesTokenCount">>)
EventModel(ev, request_model) ==
  IF "model" \in DOMAIN ev THEN ev.model
  ELSE IF "modelVersion" \in DOMAIN ev THEN ev.modelVersion ELSE request_model

UsageLines(lines) ==
  {i \in DOMAIN lines : lines[i].kind = "data" /\ lines[i].valid /\ CarriesUsage(lines[i].json)}

LastUsageEvent(lines) ==
  lines[CHOOSE i \in UsageLines(lines) : \A j \in UsageLines(lines) : j <= i].json

StreamEnds(r) == reqs[r].pc = "streaming" /\ reqs'[r].pc = "done"

C11_StreamLogsLastUsage ==
  [][\A r \in ReqIds :
       StreamEnds(r)
       => LET lines == reqs[r].accumulated
          IN IF UsageLines(lines) = {}
             THEN UNCHANGED <<usage_logs, tags, log_tags, alert_tasks, anomaly_tasks>>
             ELSE LET ev == LastUsageEvent(lines)
                  IN (EventInput(ev) > 0 \/ EventOutput(ev) > 0)
                     => /\ Len(usage_logs') = Len(usage_logs) + 1
                        /\ LET log == usage_logs'[Len(usage_logs')]
                           IN /\ log.req = r /\ ~log.cache_hit
                              /\ log.input_tokens = EventInput(ev)
                              /\ log.output_tokens = EventOutput(ev)
                              /\ log.model =
                                   EventModel(ev, RequestModel(reqs[r].route, reqs[r].body))]_vars

(***************************************************************************)
(* C12: when a request writes its usage log (on a cache miss, on a cache   *)
(* hit or at the end of a stream) and carries an X-LLMLab-Tags header,     *)
(* then after that step every non-empty trimmed name of the header is the  *)
(* name of exactly one tag of the tenant, the log is linked to exactly     *)
(* those tags, and to each of them once.                                   *)
(***************************************************************************)
HeaderNames(header) == {Strip(header[i]) : i \in DOMAIN header} \ {""}

TagsNamed(tgs, u, names) == {t \in DOMAIN tgs : tgs[t].user_id = u /\ tgs[t].name \in names}

LinksOf(links, log) == {k \in DOMAIN links : links[k][1] = log}

WritesLog(r) ==
  /\ Len(usage_logs') = Len(usage_logs) + 1
  /\ usage_logs'[Len(usage_logs')].req = r

C12_HeaderTagsLinked ==
  [][\A r \in ReqIds :
       (WritesLog(r) /\ reqs[r].tag_header # <<>>)
       => LET log == Len(usage_logs')
              u == usage_logs'[log].user_id
              names == HeaderNames(reqs[r].tag_header)
          IN /\ \A n \in names : Cardinality(TagsNamed(tags', u, {n})) = 1
             /\ {log_tags'[k][2] : k \in LinksOf(log_tags', log)} = TagsNamed(tags', u, names)
             /\ Cardinality(LinksOf(log_tags', log)) = Cardinality(names)]_vars

\* a miss whose header repeats a name and has an empty item, then a hit of
\* another tenant, each linked to the tags of its own header
C12_Witness ==
  \E i, j \in DOMAIN usage_logs :
    /\ ~usage_logs[i].cache_hit /\ usage_logs[i].provider = "openai"
    /\ reqs[usage_logs[i].req].tag_header = <<"a", " a", " ", "b">>
    /\ Cardinality(LinksOf(log_tags, i)) = 2
    /\ usage_logs[j].cache_hit /\ Cardinality(LinksOf(log_tags, j)) = 1
    /\ Len(tags) >= 3

(***************************************************************************)
(* C13: no tenant ever has two tags of the same name, whatever explicit    *)
(* creations and requests with X-LLMLab-Tags took place, and the log of    *)
(* every request with such a header is linked to the one tag of each of    *)
(* its names, also when two requests in flight together brought the name.  *)
(***************************************************************************)
C13_TagNamesUnique ==
  /\ \A i, j \in DOMAIN tags :
       (tags[i].user_id = tags[j].user_id /\ tags[i].name = tags[j].name) => i = j
  /\ \A log \in DOMAIN usage_logs :
       LET r == usage_logs[log].req
       IN r \in ReqIds
          => \A n \in HeaderNames(reqs[r].tag_header) :
               \E t \in DOMAIN tags :
                 /\ tags[t].user_id = usage_logs[log].user_id /\ tags[t].name = n
                 /\ \E k \in DOMAIN log_tags : log_tags[k] = <<log, t>>

\* two requests of one tenant were both forwarded upstream (neither was
\* served from the other's cache entry) and both brought the new name b
C13_Witness ==
  \E i, j \in DOMAIN usage_logs :
    /\ i < j
    /\ usage_logs[i].user_id = usage_logs[j].user_id
    /\ ~usage_logs[i].cache_hit /\ ~usage_logs[j].cache_hit
    /\ usage_logs[i].provider = "openai" /\ usage_logs[j].provider = "openai"
    /\ \E t \in DOMAIN tags :
         /\ tags[t].name = "b"
         /\ \E k1, k2 \in DOMAIN log_tags : log_tags[k1] = <<i, t>> /\ log_tags[k2] = <<j, t>>

(***************************************************************************)
(* C14: a run of check_and_fire_alerts that finds the tuple (tenant,       *)
(* budget, status) not fired yet takes as status budget_exceeded when the  *)
(* trailing spend is at least 100 percent of the budget, budget_warning    *)
(* when it is at least alert_threshold percent, and dispatches nothing     *)
(* otherwise; the run sends one POST to each active webhook of the tenant  *)
(* whose event_type is that status, and no POST to any other webhook.      *)
(***************************************************************************)
ExpectedStatus(spend, b) ==
  IF spend * 100 >= 100 * b.amount_usd THEN "budget_exceeded"
  ELSE IF spend * 100 >= b.alert_threshold * b.amount_usd THEN "budget_warning"
  ELSE None

PostsOfRun(k) == {i \in DOMAIN posts : posts[i].kind = "budget" /\ posts[i].task = k}

MatchingWebhooks(u, st) ==
  {w \in DOMAIN webhooks : /\ webhooks[w].user_id = u
                           /\ webhooks[w].is_active
                           /\ webhooks[w].event_type = st}

RunStarts(k) == alert_tasks[k].pc = "ready" /\ alert_tasks'[k].pc # "ready"

StatusAsSpent(k) ==
  RunStarts(k)
  => LET u == alert_tasks[k].user_id
     IN \A bi \in DOMAIN budgets :
          (budgets[bi].user_id = u /\ budgets[bi].amount_usd > 0)
          => LET st == ExpectedStatus(CurrentSpend(u), budgets[bi])
                 fresh == st # None /\ <<u, budgets[bi].id, st>> \notin fired_alerts
             IN IF fresh /\ MatchingWebhooks(u, st) # {}
                THEN alert_tasks'[k].pc = "posting" /\ alert_tasks'[k].status = st
                ELSE alert_tasks'[k].pc = "done" /\ alert_tasks'[k].status = None

PostsAsStatus(k) ==
  LET t == alert_tasks[k]
      match == MatchingWebhooks(t.user_id, t.status)
      sent(w) == {i \in PostsOfRun(k) : posts[i].webhook = webhooks[w].id}
  IN /\ \A i \in PostsOfRun(k) :
          /\ posts[i].event = t.status
          /\ \E w \in match : posts[i].webhook = webhooks[w].id
     /\ \A w \in match : Cardinality(sent(w)) <= 1
     /\ t.pc = "done" => \A w \in match : Cardinality(sent(w)) = 1

C14_OnePostPerMatchingWebhook ==
  /\ [](\A k \in TaskIds : PostsAsStatus(k))
  /\ [][\A k \in TaskIds : StatusAsSpent(k)]_vars

\* a run for u1 ended after its exceeded went to w2 only, a run for u2 after
\* its warning went to w4 only
C14_Witness ==
  \E k1, k2 \in TaskIds :
    /\ alert_tasks[k1].pc = "done" /\ alert_tasks[k1].status = "budget_exceeded"
    /\ alert_tasks[k1].user_id = "u1"
    /\ {posts[i].webhook : i \in PostsOfRun(k1)} = {"w2"}
    /\ alert_tasks[k2].pc = "done" /\ alert_tasks[k2].status = "budget_warning"
    /\ alert_tasks[k2].user_id = "u2"
    /\ {posts[i].webhook : i \in PostsOfRun(k2)} = {"w4"}

(***************************************************************************)
(* C15: whatever POST /budgets and DELETE /budgets took place, no tenant   *)
(* has more than one budget, and a POST of a tenant that has a budget      *)
(* leaves the table with the same rows in the same places, the tenant's    *)
(* row keeping its id and taking the posted amount, period and threshold.  *)
(***************************************************************************)
BudgetRowsOf(bs, u) == {i \in DOMAIN bs : bs[i].user_id = u}

PostUpdatesInPlace ==
  \A u \in Users :
    (last_op'.op = "create_budget" /\ last_op'.user_id = u /\ BudgetRowsOf(budgets, u) # {})
    => /\ Len(budgets') = Len(budgets)
       /\ \A i \in DOMAIN budgets :
            /\ budgets'[i].id = budgets[i].id
            /\ budgets'[i].user_id = budgets[i].user_id
            /\ budgets[i].user_id # u => budgets'[i] = budgets[i]
            /\ budgets[i].user_id = u
               => /\ budgets'[i].amount_usd = last_op'.amount_usd
                  /\ budgets'[i].period = last_op'.period
                  /\ budgets'[i].alert_threshold = last_op'.alert_threshold

C15_OneBudgetPerTenant ==
  /\ [](\A u \in Users : Cardinality(BudgetRowsOf(budgets, u)) <= 1)
  /\ [][PostUpdatesInPlace]_vars

\* u1 still has the budget b1 it started with, under new values, and u2 has a
\* budget created after its first one was deleted
C15_Witness ==
  /\ \E i \in DOMAIN budgets :
       /\ budgets[i].id = "b1" /\ budgets[i].user_id = "u1"
       /\ budgets[i].amount_usd = 400 /\ budgets[i].period = "weekly"
       /\ budgets[i].alert_threshold = 50
  /\ \E i \in DOMAIN budgets : budgets[i].id = "b3" /\ budgets[i].user_id = "u2"
  /\ last_op.op = "create_budget" /\ last_op.user_id = "u1"

(***************************************************************************)
(* C16: whatever a request sent upstream, none of the inbound Host,        *)
(* Authorization, x-api-key and Content-Length headers is in it: the       *)
(* headers sent have no Host and no Content-Length, an Authorization only  *)
(* for OpenAI and an x-api-key only for Anthropic, each holding the        *)
(* provider secret of the credential, and a key in the URL only for        *)
(* Google, again the provider secret.                                      *)
(***************************************************************************)
C16_InboundCredentialsStripped ==
  \A r \in ReqIds :
    reqs[r].upstream_calls > 0 /\ reqs[r].sent # NoSent
    => LET h == reqs[r].sent.headers
           secret == real_api_key(reqs[r].key_id)
       IN /\ "host" \notin DOMAIN h
          /\ "content-length" \notin DOMAIN h
          /\ "authorization" \in DOMAIN h
             => reqs[r].route = "openai" /\ h["authorization"] = Bearer(secret)
          /\ "x-api-key" \in DOMAIN h
             => reqs[r].route = "anthropic" /\ h["x-api-key"] = secret
          /\ reqs[r].sent.url_key # 0
             => reqs[r].route = "google" /\ reqs[r].sent.url_key = secret

(***************************************************************************)
(* C17, as claimed: a unary request that looks up the cache after an       *)
(* identical request (same provider and body) has been answered adds one   *)
(* to the hit counter and leaves the miss counter as it is.                *)
(***************************************************************************)
Looks(r) == reqs[r].pc = "body" /\ reqs'[r].pc # "body" /\ ~IsStreaming(reqs[r].body)

AnsweredBefore(r) ==
  \E q \in ReqIds \ {r} :
    /\ reqs[q].pc = "done"
    /\ reqs[q].route = reqs[r].route
    /\ reqs[q].body = reqs[r].body

CountsAHit ==
  /\ response_cache'.hits = response_cache.hits + 1
  /\ response_cache'.misses = response_cache.misses
  /\ response_cache'.hits * (response_cache.hits + response_cache.misses)
       >= response_cache.hits * (response_cache'.hits + response_cache'.misses)

CountsAMiss ==
  /\ response_cache'.hits = response_cache.hits
  /\ response_cache'.misses = response_cache.misses + 1

C17_RepeatAlwaysHits ==
  [][\A r \in ReqIds : (Looks(r) /\ AnsweredBefore(r)) => CountsAHit]_vars

(***************************************************************************)
(* C17, amended: a unary request counts a hit, and the hit rate does not   *)
(* go down, exactly when the cache holds an entry for its provider and     *)
(* body that has not expired at the time of the lookup; every other unary  *)
(* request counts a miss.                                                  *)
(***************************************************************************)
LiveEntry(r) ==
  \E i \in DOMAIN response_cache.entries :
    /\ response_cache.entries[i].key = <<reqs[r].route, reqs[r].body>>
    /\ now <= response_cache.entries[i].expires_at

C17_HitWhileEntryLives ==
  [][\A r \in ReqIds :
       Looks(r) => IF LiveEntry(r) THEN CountsAHit ELSE CountsAMiss]_vars

\* the first request was stored, the second was answered from the cache at
\* the last second of the entry
C17_Witness ==
  /\ response_cache.hits = 1 /\ response_cache.misses = 1
  /\ \E r \in ReqIds : reqs[r].pc = "done" /\ reqs[r].lookups = 1 /\ reqs[r].upstream_calls = 0
  /\ \E i \in DOMAIN response_cache.entries : response_cache.entries[i].expires_at = now

(***************************************************************************)
(* C18: a step puts an entry in the response cache that was not there only *)
(* when it is the return of the upstream call of a non-streaming request   *)
(* with status 200 and a body from which a non-zero token count is         *)
(* extracted, and the entry is then that of the request's provider and     *)
(* body; the return of any other upstream response leaves the cache as it  *)
(* was.                                                                    *)
(***************************************************************************)
Returns(r) == reqs[r].pc = "upstream" /\ reqs'[r].pc = "done"

GoodResponse(provider, resp) ==
  /\ resp.status = 200
  /\ resp.valid
  /\ LET usage == extract_usage(provider, resp.json) IN usage[1] > 0 \/ usage[2] > 0

NewEntries ==
  {i \in DOMAIN response_cache'.entries :
     \A j \in DOMAIN response_cache.entries :
       response_cache.entries[j] # response_cache'.entries[i]}

C18_CacheWrittenOnSuccessOnly ==
  [][/\ \A i \in NewEntries :
          \E r \in ReqIds :
            /\ Returns(r)
            /\ ~IsStreaming(reqs[r].body)
            /\ GoodResponse(reqs[r].route, reqs'[r].up)
            /\ response_cache'.entries[i].key = <<reqs[r].route, reqs[r].body>>
            /\ response_cache'.entries[i].response_body = reqs'[r].up.content
     /\ \A r \in ReqIds :
          (Returns(r) /\ ~GoodResponse(reqs[r].route, reqs'[r].up))
          => response_cache' = response_cache]_vars

\* one request stored its response; the same request, in flight at the same
\* time, got a 500 and left the entry alone
C18_Witness ==
  /\ Len(response_cache.entries) = 1
  /\ response_cache.entries[1].response_body = "completion"
  /\ \E r \in ReqIds : reqs[r].pc = "done" /\ reqs[r].up.status = 500
                       /\ response_cache.entries[1].key = <<reqs[r].route, reqs[r].body>>

(***************************************************************************)
(* C19: no step of a request whose body has stream = true changes the      *)
(* response cache: its entries, their order and its hit and miss counters  *)
(* are after the step what they were before it.                            *)
(***************************************************************************)
StreamRequested(body) ==
  body.valid /\ "stream" \in DOMAIN body.json /\ body.json["stream"] = TRUE

C19_StreamLeavesCacheAlone ==
  [][\A r \in ReqIds :
       (reqs'[r] # reqs[r] /\ StreamRequested(reqs'[r].body))
       => response_cache' = response_cache]_vars

\* a streaming request ran to its end while the cache held an entry
C19_Witness ==
  \E r \in ReqIds :
    /\ reqs[r].pc = "done"
    /\ StreamRequested(reqs[r].body)
    /\ reqs[r].accumulated # <<>>
    /\ response_cache.entries # <<>>
    /\ response_cache.misses = 1 /\ response_cache.hits = 0

(***************************************************************************)
(* C20: for every tenant detect_anomalies has run for, the baseline it     *)
(* computes from the rows it loads is the series of the costs of the 13    *)
(* days just before today, oldest first, and the cost of every loaded row  *)
(* of the 14 days that end with today is in the baseline or in today's     *)
(* value.                                                                  *)
(***************************************************************************)
BaselineDays == WindowDays - 1

Detected(u) ==
  \E k \in TaskIds : anomaly_tasks[k].user_id = u /\ anomaly_tasks[k].pc \in {"posting", "done"}

C20_BaselineIsThe13DaysBeforeToday ==
  \A u \in {v \in Users : Detected(v)} :
    LET logs == AnomalyLogs(u)
        hist == Historical(DailyValues(logs))
        trailing == SelectSeq(logs, LAMBDA l : l.created_day > today - WindowDays)
    IN /\ Len(hist) = BaselineDays
       /\ \A i \in 1..BaselineDays : hist[i] = DayCost(logs, today - BaselineDays + (i - 1), 1)
       /\ SeqSum(hist, 1) + DayCost(logs, today, 1) = SumCost(trailing, 1)

(***************************************************************************)
(* C21: a run of detect_anomalies yields a token_surge anomaly of severity *)
(* info exactly when the mean of the historical daily token totals is      *)
(* above 0 and today's token total is at least 3 times that mean, the case *)
(* of exactly 3 times included.                                            *)
(***************************************************************************)
Detects(k) == anomaly_tasks[k].pc = "ready" /\ anomaly_tasks'[k].pc # "ready"

SurgeEmitted(u) ==
  \E i \in DOMAIN detect_anomalies(u) :
    detect_anomalies(u)[i].type = "token_surge" /\ detect_anomalies(u)[i].severity = "info"

\* mean > 0 and today >= 3 * mean, with mean = total / n
SurgeExpected(u) ==
  LET logs == AnomalyLogs(u)
      hist_tokens == Historical(TokenValues(logs))
      total == SeqSum(hist_tokens, 1)
  IN total > 0 /\ Len(hist_tokens) * DayTokens(logs, today, 1) >= 3 * total

C21_TokenSurgeAtThreeTimesMean ==
  [][\A k \in TaskIds :
       Detects(k) => (SurgeEmitted(anomaly_tasks[k].user_id)
                        <=> SurgeExpected(anomaly_tasks[k].user_id))]_vars

(***************************************************************************)
(* C22: the cache never holds more than max_size entries, nor two for one  *)
(* key.  A set puts its key last in the order of use; a set of a new key   *)
(* into a full cache drops the first entry of that order and no other; a   *)
(* set of a present key or of a new key into a cache that is not full      *)
(* drops none; any set leaves the other entries as they were, and so does  *)
(* a hit, which moves its entry to the end of the order.                   *)
(***************************************************************************)
Entries == response_cache.entries

AllButLast(s) == SubSeq(s, 1, Len(s) - 1)

SetKeepsOrderOfUse ==
  last_op'.op = "set"
  => LET i == KeyIndex(Entries, last_op'.key)
     IN /\ Entries' # <<>>
        /\ Entries'[Len(Entries')].key = last_op'.key
        /\ AllButLast(Entries') =
             IF i # 0 THEN RemoveAt(Entries, i)
             ELSE IF Len(Entries) = max_size THEN Tail(Entries)
             ELSE Entries
        /\ response_cache'.hits = response_cache.hits
        /\ response_cache'.misses = response_cache.misses

HitMovesToEnd ==
  (last_op'.op = "get" /\ last_op'.hit)
  => LET i == KeyIndex(Entries, last_op'.key)
     IN i # 0 /\ Entries' = Append(RemoveAt(Entries, i), Entries[i])

C22_LeastRecentlyUsedEvicted ==
  /\ [](/\ Len(Entries) <= max_size
        /\ \A i, j \in DOMAIN Entries : Entries[i].key = Entries[j].key => i = j)
  /\ [][SetKeepsOrderOfUse /\ HitMovesToEnd]_vars

\* after a hit on the older of two entries, the set of a third key dropped
\* the younger one
C22_Witness ==
  /\ last_op.op = "set"
  /\ last_op.key = <<"google", PlainBody>>
  /\ last_op.evicted = {<<"openai", ModelBody>>}
  /\ response_cache.hits = 1
  /\ Len(Entries) = max_size
  /\ Entries[1].key = <<"openai", PlainBody>>

(***************************************************************************)
(* C23: a get for a key whose entry has now > expires_at returns a miss,   *)
(* adds one to the miss counter only and removes the entry; a get for a    *)
(* key whose entry has now <= expires_at returns the stored body and       *)
(* metadata, adds one to the hit counter only and keeps the entry as it    *)
(* was.                                                                    *)
(***************************************************************************)
GetAsExpiry ==
  (last_op'.op = "get" /\ KeyIndex(Entries, last_op'.key) # 0)
  => LET e == Entries[KeyIndex(Entries, last_op'.key)]
     IN IF now > e.expires_at
        THEN /\ ~last_op'.hit
             /\ response_cache'.misses = response_cache.misses + 1
             /\ response_cache'.hits = response_cache.hits
             /\ KeyIndex(Entries', last_op'.key) = 0
             /\ Len(Entries') = Len(Entries) - 1
        ELSE /\ last_op'.hit
             /\ last_op'.returned = <<e.response_body, e.metadata>>
             /\ response_cache'.hits = response_cache.hits + 1
             /\ response_cache'.misses = response_cache.misses
             /\ \E i \in DOMAIN Entries' : Entries'[i] = e

C23_ExpiredEntryIsAMiss == [][GetAsExpiry]_vars

\* an entry was hit while it lived and, once expired, missed and removed
C23_Witness ==
  /\ last_op.op = "get" /\ last_op.found /\ ~last_op.hit
  /\ response_cache.hits = 1 /\ response_cache.misses = 1
  /\ KeyIndex(Entries, last_op.key) = 0

(***************************************************************************)
(* C24: on every route, what a streaming request has delivered to the      *)
(* client is the upstream's body chunks read so far, unchanged and in the  *)
(* upstream's order, without the (status, headers) frame; the chunks not   *)
(* yet read are the rest of the upstream's chunks; a step hands over at    *)
(* most the one next chunk; a closed stream has delivered them all.        *)
(***************************************************************************)
Streams(r) == reqs[r].pc \in {"streaming", "done"} /\ "chunks" \in DOMAIN reqs[r].up

Handed(r) == Len(reqs[r].up.chunks) - Len(reqs[r].pending)

DeliveredInOrder(r) ==
  /\ Handed(r) >= 0
  /\ reqs[r].response.content = Concat(SubSeq(reqs[r].up.chunks, 1, Handed(r)))
  /\ reqs[r].pending = SubSeq(reqs[r].up.chunks, Handed(r) + 1, Len(reqs[r].up.chunks))
  /\ reqs[r].pc = "done" => reqs[r].pending = <<>>

OneChunkAtATime(r) ==
  (Streams(r) /\ Streams(r)')
  => /\ reqs'[r].up = reqs[r].up
     /\ Handed(r)' \in {Handed(r), Handed(r) + 1}

DeliveredFor(key) ==
  \E i \in DOMAIN posts :
    /\ posts[i].kind = "budget" /\ posts[i].delivered
    /\ <<posts[i].user_id, posts[i].budget, posts[i].event>> = key

C25_FiredOnlyAfterDelivery == \A key \in fired_alerts : DeliveredFor(key)

(***************************************************************************)
(* C26: a client's disconnect while a stream is open cancels the request:  *)
(* the step writes no usage log, no tag, no link, no key use and schedules *)
(* no post-hook; afterwards the request never moves again, so no further   *)
(* upstream chunk is read, and it never has a usage log or a post-hook.    *)
(***************************************************************************)
Cancelled(r) == reqs[r].pc = "cancelled"

Disconnects(r) == reqs[r].pc = "streaming" /\ last_op'.op = "disconnect" /\ last_op'.req = r

C26_DisconnectLogsNothing ==
  /\ [](/\ last_op.op = "disconnect" => Cancelled(last_op.req)
        /\ \A r \in ReqIds :
             Cancelled(r) => /\ LogsOfRequest(r) = {}
                             /\ alert_tasks[r].pc = "idle"
                             /\ anomaly_tasks[r].pc = "idle")
  /\ [][\A r \in ReqIds :
          /\ Cancelled(r) => reqs'[r] = reqs[r]
          /\ Disconnects(r) => UNCHANGED <<usage_logs, api_keys, tags, log_tags,
                                           alert_tasks, anomaly_tasks, response_cache>>]_vars

\* a stream with a tag header cancelled after its first chunk, the second
\* chunk, which carries the usage, unread
C26_Witness ==
  \E r \in ReqIds :
    /\ Cancelled(r)
    /\ reqs[r].tag_header # <<>>
    /\ reqs[r].up = UpstreamStream(200, GeminiEvents(20, 8))
    /\ reqs[r].response.content = GeminiEvents(20, 8)[1]
    /\ Len(reqs[r].pending) = 1
    /\ LogsOfRequest(r) = {}

(***************************************************************************)
(* C27: the database work done for a request uses the request's session    *)
(* only while it is open: the budget check and the anomaly check scheduled *)
(* by request k start their queries, and the end of a stream writes its    *)
(* log, before get_db has closed the session of request k.                 *)
(***************************************************************************)
HookQueries(k) ==
  \/ alert_tasks[k].pc = "ready" /\ alert_tasks'[k].pc # "ready"
  \/ Detects(k)

C27_NoSessionUseAfterClose ==
  [][\A k \in ReqIds : (HookQueries(k) \/ StreamEnds(k)) => reqs[k].db = "open"]_vars

(***************************************************************************)
(* C28: a unary request is answered from the cache only with the body that *)
(* the upstream returned to a request of the same route, method, path and  *)
(* body.                                                                   *)
(***************************************************************************)
ServedFromCache(r) == reqs[r].pc = "body" /\ reqs'[r].pc = "done"

SameRequest(q, r) ==
  /\ reqs[q].route = reqs[r].route
  /\ reqs[q].method = reqs[r].method
  /\ reqs[q].path = reqs[r].path
  /\ reqs[q].body = reqs[r].body

C28_HitOnlyForSameRequest ==
  [][\A r \in ReqIds :
       ServedFromCache(r)
       => \E q \in ReqIds \ {r} :
            /\ reqs[q].pc = "done" /\ reqs[q].upstream_calls = 1
            /\ SameRequest(q, r)
            /\ reqs'[r].response.content = reqs[q].up.content]_vars

(***************************************************************************)
(* C29: every (log, tag) link joins a usage log and a tag of one tenant,   *)
(* and an attach or a detach call of a tenant changes the links of no log  *)
(* but the one it names, and of that one only if it is the caller's.       *)
(***************************************************************************)
LinkPairs(links, log) == {links[k] : k \in LinksOf(links, log)}

TagCall == last_op'.op \in {"attach_tags", "detach_tag"}

StoredFor(r) ==
  \E i \in DOMAIN response_cache.entries :
    /\ response_cache.entries[i].key = _make_key(reqs[r].route, reqs[r].body)
    /\ response_cache.entries[i].response_body = reqs[r].up.content

C30_CacheEntryAndLogTogether ==
  [][\A r \in ReqIds : Returns(r) => (StoredFor(r)' <=> WritesLog(r))]_vars

====
